---- MODULE Spec2Model ----
(***************************************************************************)
(* Frame-tree model of the exn error library.                              *)
(*                                                                         *)
(* The sources hold three revisions of the core:                           *)
(*   "impls.rs"      Frame {error, location, children} and the recovery    *)
(*                   channel (src/exn/src/impls.rs)                        *)
(*   "impls/mod.rs"  ExnImpl {error, context, children}, attach and        *)
(*                   from_iter (src/exn/src/impls/mod.rs)                  *)
(*   "exn.rs"        ExnImpl {error, context, first_child, next_sibling},  *)
(*                   context and suppress (src/exn/src/exn.rs)             *)
(* A program links one of them: rev is chosen in Init and never changes.   *)
(* An Option<T> is the sequence <<>> (None) or <<x>> (Some(x)); a Vec is a *)
(* sequence.                                                               *)
(***************************************************************************)
EXTENDS Integers, Sequences, FiniteSets, TLC

\* ---------------------------------------------------------------- bounds
MaxExns == 2
MaxFrames == 4
MaxSources == 2
MaxContexts == 2
MaxRenderFrames == 6
MaxRecovering == 1
MaxItems == 5
MaxHooks == 4

\* ---------------------------------------------------------------- inputs
Revisions == {"impls.rs", "impls/mod.rs", "exn.rs"}

\* concrete error types defined by callers; "B" implements provide() with a
\* Location, "A" does not
Types == {"A", "B"}


\* the Location a "B" error provides through Error::provide
ProvidedLocation == "b.rs:1:1"

\* context values passed to attach / context
ContextValues == {"c1", "c2"}

\* recovery values handed to with_recovery; Unit is the default R = ()
Recoveries == {"r1", "r2"}
Unit == "()"

Some(x) == <<x>>
None == <<>>

OtherType(t) == IF t = "A" THEN "B" ELSE "A"

\* an error value of type t whose native cause chain (Error::source) has k
\* links; the display text of every link is distinct from its type
RECURSIVE MkError(_, _)
MkError(t, k) ==
    [ty |-> t,
     msg |-> <<t, k>>,
     provide |-> IF t = "B" THEN Some(ProvidedLocation) ELSE None,
     source |-> IF k = 0 THEN None ELSE Some(MkError(OtherType(t), k - 1))]

ErrorValues == {MkError(t, k) : t \in Types, k \in 0..MaxSources}

\* The program's calls of the #[track_caller] entry points: each call
\* expression sits at one source location (file, line, column) and builds one
\* error value; Location::caller() is the location of the call.
CallSite(t, k) == <<"main.rs", IF t = "A" THEN 10 + k ELSE 20 + k, 5>>
Calls ==
    {[error |-> MkError(t, k), location |-> CallSite(t, k)] :
        t \in Types, k \in 0..MaxSources}

\* Display::fmt / ToString::to_string of an error
to_string(error) == error.msg

\* the private string wrapper of Exn::new; it has no source and provides nothing
SourceError(text) ==
    [ty |-> "SourceError", msg |-> text, provide |-> None, source |-> None]

RECURSIVE SourceChainLen(_)
SourceChainLen(error) ==
    IF error.source = None THEN 0 ELSE 1 + SourceChainLen(error.source[1])

RECURSIVE SeqSum(_)
SeqSum(s) == IF s = <<>> THEN 0 ELSE Head(s) + SeqSum(Tail(s))

\* ===================================================== revision impls.rs
\* struct Frame
Frame(error, location, children) ==
    [error |-> error, location |-> location, children |-> children]

\* struct Exn<E, R>; phantom is the static type parameter E
Exn(frame, recovery, phantom) ==
    [frame |-> frame, recovery |-> recovery, phantom |-> phantom]

\* walk with the recursion into the cause of the cause left out
walk_one_link(error, location) ==
    IF error.source # None
    THEN << [error |-> [ty |-> "SourceError", msg |-> error.source[1].msg,
                        provide |-> << >>, source |-> << >>],
             location |-> location, children |-> << >>] >>
    ELSE << >>

\* walk that renders the error itself where it should render its cause
RECURSIVE walk_outer_text(_, _)
walk_outer_text(error, location) ==
    IF error.source # None
    THEN << [error |-> [ty |-> "SourceError", msg |-> error.msg,
                        provide |-> << >>, source |-> << >>],
             location |-> location,
             children |-> walk_outer_text(error.source[1], location)] >>
    ELSE << >>

\* walk that boxes the cause itself instead of its rendering
RECURSIVE walk_keeps_type(_, _)
walk_keeps_type(error, location) ==
    IF error.source # None
    THEN << [error |-> error.source[1], location |-> location,
             children |-> walk_keeps_type(error.source[1], location)] >>
    ELSE << >>

RECURSIVE walk(_, _)
walk(error, location) ==
    IF error.source # None
    THEN LET source == error.source[1]
         IN  << Frame(SourceError(to_string(source)), location,
                      walk(source, location)) >>
    ELSE << >>

\* Exn::new; location is Location::caller()
new(error, location) ==
    Exn(Frame(error, location, walk(error, location)), Unit, error.ty)

\* push_all that pushes the children last to first
push_all_reversed(children, exns) ==
    children \o [k \in 1..Len(exns) |-> exns[Len(exns) + 1 - k].frame]

\* push every child's root frame, in iteration order
RECURSIVE push_all(_, _)
push_all(children, exns) ==
    IF exns = <<>> THEN children
    ELSE push_all(Append(children, Head(exns).frame), Tail(exns))

\* raise_all that pushes the children a second time
raise_all_twice(error, children, location) ==
    LET new_exn == new(error, location)
    IN  [new_exn EXCEPT !.frame.children = push_all(push_all(@, children),
                                                    children)]

raise_all(error, children, location) ==
    LET new_exn == new(error, location)
    IN  [new_exn EXCEPT !.frame.children = push_all(@, children)]

\* raise that hangs the new frame under the old root
raise_keeps_root(self, err, location) ==
    Exn([self.frame EXCEPT !.children = Append(@, new(err, location).frame)],
        Unit, err.ty)

\* raise that puts the old root in front of the frames of the cause
raise_pushes_front(self, err, location) ==
    LET new_exn == new(err, location)
    IN  [new_exn EXCEPT !.frame.children = << self.frame >> \o @]

raise(self, err, location) ==
    LET new_exn == new(err, location)
    IN  [new_exn EXCEPT !.frame.children = Append(@, self.frame)]

with_recovery(error, recovery, location) ==
    Exn(new(error, location).frame, recovery, error.ty)

raise_with_recovery(self, err, recovery, location) ==
    LET new_exn == with_recovery(err, recovery, location)
    IN  [new_exn EXCEPT !.frame.children = Append(@, self.frame)]

raise_all_with_recovery(error, children, recovery, location) ==
    LET new_exn == with_recovery(error, recovery, location)
    IN  [new_exn EXCEPT !.frame.children = push_all(@, children)]

discard_recovery(self) == Exn(self.frame, Unit, self.phantom)

\* recover that rebuilds the root frame without its children
recover_drops_children(self) ==
    << self.recovery,
       Exn(Frame(self.frame.error, self.frame.location, << >>), Unit,
           self.phantom) >>

\* returns (R, Exn<E>)
recover(self) == << self.recovery, Exn(self.frame, Unit, self.phantom) >>

\* <dyn Error>::downcast_ref::<T>()
downcast_ref(error, T) == IF error.ty = T THEN Some(error) ELSE None

\* Deref for Exn<E>: downcast_ref().expect(..); None models the panic
deref(self) == downcast_ref(self.frame.error, self.phantom)

\* ------------------------------------- examples/src/downcast.rs, find_error
\* A reference &T into the tree is the place of its frame (the child indices
\* from the root, << >> for the root) and the payload it points at.
Ref(at, error) == [at |-> at, error |-> error]

\* fn walk: the frame's own payload first, then
\* frame.children().iter().find_map(walk), here from child i on
RECURSIVE find_walk(_, _, _)
RECURSIVE find_map(_, _, _, _)
\* find_map that looks into the first child only
find_map_first_child(children, i, T, at) ==
    IF children = << >> THEN None
    ELSE find_walk(children[1], T, Append(at, 1))

find_map(children, i, T, at) ==
    IF i > Len(children) THEN None
    ELSE LET found == find_walk(children[i], T, Append(at, i))
         IN  IF found # None THEN found ELSE find_map(children, i + 1, T, at)

\* walk that searches the children before the frame's own payload
find_walk_children_first(frame, T, at) ==
    LET found == find_map(frame.children, 1, T, at)
    IN  IF found # None THEN found
        ELSE IF downcast_ref(frame.error, T) # None
        THEN Some(Ref(at, downcast_ref(frame.error, T)[1]))
        ELSE None

find_walk(frame, T, at) ==
    IF downcast_ref(frame.error, T) # None
    THEN Some(Ref(at, downcast_ref(frame.error, T)[1]))
    ELSE find_map(frame.children, 1, T, at)

find_error(exn, T) == find_walk(exn.frame, T, << >>)

\* ------------------------------------------------ debug.rs, write_exn
\* Formatted text is the sequence of the characters written. The Display
\* text of an error, a file name and a number are one element each; the box
\* drawing characters of the compact report are named by their code points.
Nl == "\n"
Rail == << "|", " ", " ", " " >>
Blank4 == << " ", " ", " ", " " >>

\* write!(f, "{}", frame.error()) and write!(f, ", at {}:{}:{}", ...)
frame_line(frame) ==
    << to_string(frame.error) >> \o << ",", " ", "a", "t", " " >>
    \o << frame.location[1], ":", ToString(frame.location[2]), ":",
          ToString(frame.location[3]) >>

\* a child introduced by its arrow line alone
introduce_without_bar(prefix) ==
    << Nl >> \o prefix \o << "|", "-", ">", " " >>

\* write!(f, "\n{}|", prefix) and write!(f, "\n{}|-> ", prefix)
introduce(prefix) ==
    << Nl >> \o prefix \o << "|" >> \o << Nl >> \o prefix \o << "|", "-", ">", " " >>

\* write_exn without the flat run: every child is indented
fast_path_never(level, children_len, child_child_len) == FALSE

\* the flat run taken at every level
fast_path_any_level(level, children_len, child_child_len) ==
    children_len = 1 /\ child_child_len = 1

\* level == 0 && children_len == 1 && child_child_len == 1
fast_path(level, children_len, child_child_len) ==
    level = 0 /\ children_len = 1 /\ child_child_len = 1

\* the rail handed to every child, the last one included
child_prefix_always_rail(prefix, i, children_len) == prefix \o Rail

\* the prefix handed to the i-th of children_len children (i from 1)
child_prefix(prefix, i, children_len) ==
    IF i - 1 < children_len - 1 THEN prefix \o Rail ELSE prefix \o Blank4

\* the children from the last to the first
iter_reversed(children) ==
    [i \in 1..Len(children) |-> children[Len(children) - i + 1]]

\* children.iter()
iter(children) == children

RECURSIVE write_exn(_, _, _)
RECURSIVE write_children(_, _, _, _)
\* the body of `for (i, child) in children.iter().enumerate()` from the
\* i-th child on (i from 1)
write_children(children, i, level, prefix) ==
    IF i > Len(children) THEN << >>
    ELSE LET child == children[i]
             children_len == Len(children)
             child_child_len == Len(child.children)
         IN  introduce(prefix)
             \o (IF fast_path(level, children_len, child_child_len)
                 THEN write_exn(child, 0, prefix)
                 ELSE write_exn(child, level + 1,
                                child_prefix(prefix, i, children_len)))
             \o write_children(children, i + 1, level, prefix)

write_exn(frame, level, prefix) ==
    frame_line(frame) \o write_children(iter(frame.children), 1, level, prefix)

\* Debug for Exn<E>
debug_fmt(self) == write_exn(self.frame, 0, << >>)

\* ------------------------------- report/compact.rs, CompactFrame::debug
BoxVerticalRight == "U+251C"
BoxUpRight == "U+2514"
BoxHorizontal == "U+2500"
BoxVertical == "U+2502"
CompactRail == << BoxVertical, " ", " " >>
Blank3 == << " ", " ", " " >>

\* debug_recursive without the flat run
compact_fast_path_never(root, child_count, child_child_count) == FALSE

\* root && child_count == 1 && child_child_count == 1
compact_fast_path(root, child_count, child_child_count) ==
    root /\ child_count = 1 /\ child_child_count = 1

connector_by_position(fast, i, child_count) ==
    IF i < child_count
    THEN << BoxVerticalRight, BoxHorizontal, " " >>
    ELSE << BoxUpRight, BoxHorizontal, " " >>

\* the connector written in front of the i-th of child_count children
connector(fast, i, child_count) ==
    IF fast \/ i < child_count
    THEN << BoxVerticalRight, BoxHorizontal, " " >>
    ELSE << BoxUpRight, BoxHorizontal, " " >>

compact_child_prefix_always_blank(prefix, i, child_count) ==
    prefix \o Blank3

\* the prefix handed to the i-th of child_count children (i from 1)
compact_child_prefix(prefix, i, child_count) ==
    IF i < child_count THEN prefix \o CompactRail ELSE prefix \o Blank3

RECURSIVE debug_recursive(_, _, _)
RECURSIVE debug_children(_, _, _, _)
debug_children(children, i, root, prefix) ==
    IF i > Len(children) THEN << >>
    ELSE LET child == children[i]
             child_count == Len(children)
             child_child_count == Len(child.children)
             fast == compact_fast_path(root, child_count, child_child_count)
         IN  << Nl >> \o prefix \o connector(fast, i, child_count)
             \o (IF fast
                 THEN debug_recursive(child, root, prefix)
                 ELSE debug_recursive(child, FALSE,
                                      compact_child_prefix(prefix, i, child_count)))
             \o debug_children(children, i + 1, root, prefix)

debug_recursive(frame, root, prefix) ==
    frame_line(frame) \o debug_children(frame.children, 1, root, prefix)

\* Debug for CompactExn<T>
compact_debug(self) == debug_recursive(self.frame, TRUE, << >>)

\* ================================================= revision impls/mod.rs
\* a type-erased context entry (ContextValue<T> behind ErasedContextValue)
ContextValue(ty, value) == [ty |-> ty, value |-> value]

\* struct ExnImpl
ExnImpl(error, context, children) ==
    [error |-> error, context |-> context, children |-> children]

\* struct Exn<E>; variance is the static type parameter E
ModExn(exn_impl, variance) == [exn_impl |-> exn_impl, variance |-> variance]

\* where Location::caller() sits inside the nested fn make_location, which is
\* not #[track_caller]
HereInMakeLocation == <<"exn/src/impls/mod.rs", 54, 26>>

\* std::error::request_ref::<Location>(err)
request_ref_location(err) == err.provide

make_location(err) ==
    IF request_ref_location(err) # None
    THEN request_ref_location(err)[1]
    ELSE HereInMakeLocation

\* the Vec `sources`: (location, SourceError) of every link, outermost first
RECURSIVE collect_sources(_)
collect_sources(current) ==
    IF current.source = None THEN << >>
    ELSE LET source == current.source[1]
         IN  << [loc |-> make_location(source),
                 error |-> SourceError(to_string(source))] >>
             \o collect_sources(source)

\* the `while let Some((loc, source)) = sources.pop()` loop
RECURSIVE wrap_sources(_, _)
wrap_sources(sources, exn_impl) ==
    IF sources = << >> THEN exn_impl
    ELSE LET top == sources[Len(sources)]
             new_exn_impl ==
                 ExnImpl(top.error, << ContextValue("Location", top.loc) >>,
                         << exn_impl >>)
         IN  wrap_sources(SubSeq(sources, 1, Len(sources) - 1), new_exn_impl)

mod_source(error) ==
    IF error.source # None
    THEN LET sources == collect_sources(error)
             top == sources[Len(sources)]
             exn_impl ==
                 ExnImpl(top.error, << ContextValue("Location", top.loc) >>, << >>)
         IN  Some(wrap_sources(SubSeq(sources, 1, Len(sources) - 1), exn_impl))
    ELSE None

mod_new(error) ==
    LET source == mod_source(error)
        location == make_location(error)
    IN  ModExn(ExnImpl(error, << ContextValue("Location", location) >>,
                       IF source # None THEN << source[1] >> ELSE << >>),
               error.ty)

RECURSIVE mod_push_all(_, _)
mod_push_all(children, exns) ==
    IF exns = << >> THEN children
    ELSE mod_push_all(Append(children, Head(exns).exn_impl), Tail(exns))

from_iter(children, err) ==
    LET new_exn == mod_new(err)
    IN  [new_exn EXCEPT !.exn_impl.children = mod_push_all(@, children)]

\* as_any().downcast_ref::<E>()
any_downcast_ref(error, T) == IF error.ty = T THEN Some(error) ELSE None

\* None models the unreachable!() panic
current_value(self) == any_downcast_ref(self.exn_impl.error, self.variance)

\* attach that puts the new entry in front
attach_in_front(self, context) ==
    [self EXCEPT !.exn_impl.context = << context >> \o @]

attach(self, context) ==
    [self EXCEPT !.exn_impl.context = Append(@, context)]

mod_raise(self, err) ==
    LET new_exn == mod_new(err)
    IN  [new_exn EXCEPT !.exn_impl.children = Append(@, self.exn_impl)]

\* ======================================================= revision exn.rs
\* struct ExnImpl with first_child / next_sibling links
LinkedImpl(error, context, first_child, next_sibling) ==
    [error |-> error, context |-> context, first_child |-> first_child,
     next_sibling |-> next_sibling]

\* Location::caller() seen from the callers that are not #[track_caller]
HereInFrom == <<"exn/src/exn.rs", 116, 9>>
HereInSuppress == <<"exn/src/exn.rs", 128, 27>>
HereInRaise == <<"exn/src/exn.rs", 142, 27>>

exn_new(error, location) ==
    ModExn(LinkedImpl(error, << ContextValue("Location", location) >>, None, None),
           error.ty)

exn_context(self, context) ==
    [self EXCEPT !.exn_impl.context = Append(@, context)]

\* suppress without the walk to the end of the chain
link_at_head(node, other) == [node EXCEPT !.next_sibling = << other >>]

\* the node with `other` linked behind the last sibling: the while loop of
\* suppress walks next_sibling to the end of the chain
RECURSIVE link_at_tail(_, _)
link_at_tail(node, other) ==
    IF node.next_sibling # None
    THEN [node EXCEPT !.next_sibling = Some(link_at_tail(@[1], other))]
    ELSE [node EXCEPT !.next_sibling = Some(other)]

suppress(self, other) ==
    [self EXCEPT !.exn_impl = link_at_tail(@, other.exn_impl)]

\* raise that takes the root of self without the siblings linked behind it
exn_raise_alone(self, err) ==
    LET new_exn == exn_new(err, HereInRaise)
    IN  [new_exn EXCEPT !.exn_impl.first_child =
                            Some([self.exn_impl EXCEPT !.next_sibling = None])]

exn_raise(self, err) ==
    LET new_exn == exn_new(err, HereInRaise)
    IN  [new_exn EXCEPT !.exn_impl.first_child = Some(self.exn_impl)]

\* ------------------------------------------------------------ tree sizes
\* the root node of a handle of any revision
Root(exn) == IF "frame" \in DOMAIN exn THEN exn.frame ELSE exn.exn_impl

RECURSIVE FrameCount(_)
FrameCountSeq(frames) ==
    SeqSum([i \in 1..Len(frames) |-> FrameCount(frames[i])])
FrameCount(frame) ==
    IF "children" \in DOMAIN frame
    THEN 1 + FrameCountSeq(frame.children)
    ELSE 1 + FrameCountSeq(frame.first_child) + FrameCountSeq(frame.next_sibling)

\* ------------------------------------------------------------------ state
\* rev:  the revision the program links
\* exns: the live handles. An entry pairs a handle with the history of its
\*       root that the claims speak about (see Entry)
\* last: the most recent call, its inputs and its result
VARIABLES rev, exns, last
vars == <<rev, exns, last>>

\* fresh:    the handle came from new/from/with_recovery followed only by
\*           raise calls (and calls that keep the tree)
\* trail:    the root nodes the handle had before each raise call since then
\* attached: the values passed to attach/context since the root was created
\* others:   the root nodes passed to suppress since the root was created
Entry(exn, fresh, trail, attached, others) ==
    [exn |-> exn, fresh |-> fresh, trail |-> trail, attached |-> attached,
     others |-> others]

Created(exn) == Entry(exn, TRUE, << >>, << >>, << >>)
Merged(exn) == Entry(exn, FALSE, << >>, << >>, << >>)
Raised(self, exn) ==
    Entry(exn, self.fresh, Append(self.trail, Root(self.exn)), << >>, << >>)
Kept(self, exn) == [self EXCEPT !.exn = exn]

Range(s) == {s[i] : i \in 1..Len(s)}

\* the frames held by a set of entries
RECURSIVE FramesHeld(_)
FramesHeld(S) ==
    IF S = {} THEN 0
    ELSE LET x == CHOOSE y \in S : TRUE
         IN  FrameCount(Root(x.exn)) + FramesHeld(S \ {x})

TotalFrames == FramesHeld(exns)

\* the context entries of a tree that are not the creation location
RECURSIVE AttachedCount(_)
AttachedCountSeq(frames) ==
    SeqSum([i \in 1..Len(frames) |-> AttachedCount(frames[i])])
AttachedCount(frame) ==
    (Len(frame.context) - 1)
    + (IF "children" \in DOMAIN frame
       THEN AttachedCountSeq(frame.children)
       ELSE AttachedCountSeq(frame.first_child)
            + AttachedCountSeq(frame.next_sibling))

RECURSIVE AttachedHeld(_)
AttachedHeld(S) ==
    IF S = {} THEN 0
    ELSE LET x == CHOOSE y \in S : TRUE
         IN  AttachedCount(Root(x.exn)) + AttachedHeld(S \ {x})

\* the static type parameter E of a handle
TypeParam(exn) == IF "phantom" \in DOMAIN exn THEN exn.phantom ELSE exn.variance

\* the iteration orders of raise_all / from_iter: sequences of distinct live
\* handles of one static type that carry no recovery value
Orders ==
    {o \in UNION {[1..n -> exns] : n \in 0..Cardinality(exns)} :
        /\ \A i, j \in 1..Len(o) : i # j => o[i] # o[j]
        /\ \A j, k \in 1..Len(o) : TypeParam(o[j].exn) = TypeParam(o[k].exn)
        /\ \A k \in 1..Len(o) :
              "recovery" \in DOMAIN o[k].exn => o[k].exn.recovery = Unit}

Handles(order) == [k \in 1..Len(order) |-> order[k].exn]

Fits(error) ==
    TotalFrames + 1 + SourceChainLen(error) <= MaxFrames

\* the live handles that carry a recovery value
Recovering == {e \in exns : e.exn.recovery # Unit}

InitExns ==
    /\ exns = {}
    /\ last = [op |-> "init"]

\* ----------------------------------------------------- actions, impls.rs
New(error, location) ==
    /\ rev = "impls.rs"
    /\ Cardinality(exns) < MaxExns
    /\ Fits(error)
    /\ LET out == Created(new(error, location))
       IN  /\ exns' = exns \cup {out}
           /\ last' = [op |-> "new", error |-> error, location |-> location,
                       out |-> out]
    /\ UNCHANGED rev

\* From<E> for Exn<E> is #[track_caller] and calls Exn::new
From(error, location) ==
    /\ rev = "impls.rs"
    /\ Cardinality(exns) < MaxExns
    /\ Fits(error)
    /\ LET out == Created(new(error, location))
       IN  /\ exns' = exns \cup {out}
           /\ last' = [op |-> "new", error |-> error, location |-> location,
                       out |-> out]
    /\ UNCHANGED rev

\* raise through a copy of the handle: self stays live
Raise_keeps_self(self, err, location) ==
    /\ rev = "impls.rs"
    /\ self \in exns
    /\ self.exn.recovery = Unit
    /\ Fits(err)
    /\ LET out == Raised(self, raise(self.exn, err, location))
       IN  /\ exns' = exns \cup {out}
           /\ last' = [op |-> "raise", self |-> self, err |-> err,
                       location |-> location, out |-> out]
    /\ UNCHANGED rev

Raise(self, err, location) ==
    /\ rev = "impls.rs"
    /\ self \in exns
    /\ self.exn.recovery = Unit
    /\ Fits(err)
    /\ LET out == Raised(self, raise(self.exn, err, location))
       IN  /\ exns' = (exns \ {self}) \cup {out}
           /\ last' = [op |-> "raise", self |-> self, err |-> err,
                       location |-> location, out |-> out]
    /\ UNCHANGED rev

RaiseAll(error, order, location) ==
    /\ rev = "impls.rs"
    /\ order \in Orders
    /\ Cardinality(exns \ Range(order)) < MaxExns
    /\ Fits(error)
    /\ LET out == Merged(raise_all(error, Handles(order), location))
       IN  /\ exns' = (exns \ Range(order)) \cup {out}
           /\ last' = [op |-> "raise_all", error |-> error,
                       children |-> Handles(order), location |-> location,
                       out |-> out]
    /\ UNCHANGED rev

WithRecovery(error, recovery, location) ==
    /\ rev = "impls.rs"
    /\ Cardinality(exns) < MaxExns
    /\ Cardinality(Recovering) < MaxRecovering
    /\ Fits(error)
    /\ LET out == Created(with_recovery(error, recovery, location))
       IN  /\ exns' = exns \cup {out}
           /\ last' = [op |-> "with_recovery", error |-> error,
                       recovery |-> recovery, location |-> location, out |-> out]
    /\ UNCHANGED rev

RaiseWithRecovery(self, err, recovery, location) ==
    /\ rev = "impls.rs"
    /\ self \in exns
    /\ self.exn.recovery = Unit
    /\ Cardinality(Recovering) < MaxRecovering
    /\ Fits(err)
    /\ LET out == Raised(self, raise_with_recovery(self.exn, err, recovery,
                                                  location))
       IN  /\ exns' = (exns \ {self}) \cup {out}
           /\ last' = [op |-> "raise_with_recovery", self |-> self, err |-> err,
                       recovery |-> recovery, location |-> location, out |-> out]
    /\ UNCHANGED rev

RaiseAllWithRecovery(error, order, recovery, location) ==
    /\ rev = "impls.rs"
    /\ order \in Orders
    /\ Cardinality(exns \ Range(order)) < MaxExns
    /\ Cardinality(Recovering) < MaxRecovering
    /\ Fits(error)
    /\ LET out == Merged(raise_all_with_recovery(error, Handles(order), recovery,
                                                 location))
       IN  /\ exns' = (exns \ Range(order)) \cup {out}
           /\ last' = [op |-> "raise_all_with_recovery", error |-> error,
                       children |-> Handles(order), recovery |-> recovery,
                       location |-> location, out |-> out]
    /\ UNCHANGED rev

DiscardRecovery(self) ==
    /\ rev = "impls.rs"
    /\ self \in exns
    /\ LET out == Kept(self, discard_recovery(self.exn))
       IN  /\ exns' = (exns \ {self}) \cup {out}
           /\ last' = [op |-> "discard_recovery", self |-> self, out |-> out]
    /\ UNCHANGED rev

Recover(self) ==
    /\ rev = "impls.rs"
    /\ self \in exns
    /\ LET out == Kept(self, recover(self.exn)[2])
       IN  /\ exns' = (exns \ {self}) \cup {out}
           /\ last' = [op |-> "recover", self |-> self,
                       value |-> recover(self.exn)[1], out |-> out]
    /\ UNCHANGED rev

\* *exn on an Exn<E>: a read that succeeds leaves the state as it is, one
\* that fails panics ("error type must match")
Deref(self) ==
    /\ rev = "impls.rs"
    /\ self \in exns
    /\ self.exn.recovery = Unit
    /\ IF deref(self.exn) = None
       THEN /\ last' = [op |-> "panic", self |-> self]
            /\ UNCHANGED <<rev, exns>>
       ELSE UNCHANGED vars

\* find_error::<T>(&exn) of the examples: reads the tree, changes nothing
FindError(self, T) ==
    /\ rev = "impls.rs"
    /\ self \in exns
    /\ self.exn.recovery = Unit
    /\ last' = [op |-> "find_error", self |-> self, T |-> T,
                out |-> find_error(self.exn, T)]
    /\ UNCHANGED <<rev, exns>>

\* a render that remembers that something was rendered before
DebugFmt_remembering(self) ==
    /\ rev = "impls.rs"
    /\ self \in exns
    /\ self.exn.recovery = Unit
    /\ last' = [op |-> "debug", self |-> self,
                out |-> IF last.op = "init" THEN debug_fmt(self.exn)
                        ELSE debug_fmt(self.exn) \o << Nl >>]
    /\ UNCHANGED <<rev, exns>>

\* format!("{:?}", exn): reads the tree, changes nothing
DebugFmt(self) ==
    /\ rev = "impls.rs"
    /\ self \in exns
    /\ self.exn.recovery = Unit
    /\ last' = [op |-> "debug", self |-> self, out |-> debug_fmt(self.exn)]
    /\ UNCHANGED <<rev, exns>>

\* format!("{:?}", Compact::from(exn)); the report owns the handle
CompactFmt(self) ==
    /\ rev = "impls.rs"
    /\ self \in exns
    /\ self.exn.recovery = Unit
    /\ last' = [op |-> "compact", self |-> self, out |-> compact_debug(self.exn)]
    /\ UNCHANGED <<rev, exns>>

NextImpls ==
    \/ \E c \in Calls : New(c.error, c.location)
    \/ \E c \in Calls : From(c.error, c.location)
    \/ \E self \in exns, c \in Calls : Raise(self, c.error, c.location)
    \/ \E order \in Orders, c \in Calls : RaiseAll(c.error, order, c.location)
    \/ \E c \in Calls, recovery \in Recoveries :
          WithRecovery(c.error, recovery, c.location)
    \/ \E self \in exns, c \in Calls, recovery \in Recoveries :
          RaiseWithRecovery(self, c.error, recovery, c.location)
    \/ \E order \in Orders, c \in Calls, recovery \in Recoveries :
          RaiseAllWithRecovery(c.error, order, recovery, c.location)
    \/ \E self \in exns : DiscardRecovery(self)
    \/ \E self \in exns : Recover(self)
    \/ \E self \in exns : Deref(self)

\* ------------------------------------------------- actions, impls/mod.rs
ModNew(error) ==
    /\ rev = "impls/mod.rs"
    /\ Cardinality(exns) < MaxExns
    /\ Fits(error)
    /\ LET out == Created(mod_new(error))
       IN  /\ exns' = exns \cup {out}
           /\ last' = [op |-> "new", error |-> error, out |-> out]
    /\ UNCHANGED rev

\* From<E> for Exn<E> calls Exn::new
ModFrom(error) ==
    /\ rev = "impls/mod.rs"
    /\ Cardinality(exns) < MaxExns
    /\ Fits(error)
    /\ LET out == Created(mod_new(error))
       IN  /\ exns' = exns \cup {out}
           /\ last' = [op |-> "new", error |-> error, out |-> out]
    /\ UNCHANGED rev

FromIter(order, err) ==
    /\ rev = "impls/mod.rs"
    /\ order \in Orders
    /\ Cardinality(exns \ Range(order)) < MaxExns
    /\ Fits(err)
    /\ LET out == Merged(from_iter(Handles(order), err))
       IN  /\ exns' = (exns \ Range(order)) \cup {out}
           /\ last' = [op |-> "from_iter", error |-> err,
                       children |-> Handles(order), out |-> out]
    /\ UNCHANGED rev

Attach(self, value) ==
    /\ rev = "impls/mod.rs"
    /\ self \in exns
    /\ AttachedHeld(exns) < MaxContexts
    /\ LET context == ContextValue("&str", value)
           out == [Kept(self, attach(self.exn, context))
                      EXCEPT !.attached = Append(@, context)]
       IN  /\ exns' = (exns \ {self}) \cup {out}
           /\ last' = [op |-> "attach", self |-> self, context |-> context,
                       out |-> out]
    /\ UNCHANGED rev

ModRaise(self, err) ==
    /\ rev = "impls/mod.rs"
    /\ self \in exns
    /\ Fits(err)
    /\ LET out == Raised(self, mod_raise(self.exn, err))
       IN  /\ exns' = (exns \ {self}) \cup {out}
           /\ last' = [op |-> "raise", self |-> self, err |-> err, out |-> out]
    /\ UNCHANGED rev

\* a read that succeeds leaves the state as it is, one that fails panics
\* (unreachable!("Exn should always hold an error"))
CurrentValue(self) ==
    /\ rev = "impls/mod.rs"
    /\ self \in exns
    /\ IF current_value(self.exn) = None
       THEN /\ last' = [op |-> "panic", self |-> self]
            /\ UNCHANGED <<rev, exns>>
       ELSE UNCHANGED vars

NextMod ==
    \/ \E error \in ErrorValues : ModNew(error)
    \/ \E error \in ErrorValues : ModFrom(error)
    \/ \E order \in Orders, err \in ErrorValues : FromIter(order, err)
    \/ \E self \in exns, value \in ContextValues : Attach(self, value)
    \/ \E self \in exns, err \in ErrorValues : ModRaise(self, err)
    \/ \E self \in exns : CurrentValue(self)

\* ------------------------------------------------------- actions, exn.rs
\* exn.rs never reads Error::source: the errors without a cause chain stand
\* for all of them
PlainErrors == {e \in ErrorValues : e.source = None}
PlainCalls == {c \in Calls : c.error.source = None}

ExnNew(error, location) ==
    /\ rev = "exn.rs"
    /\ Cardinality(exns) < MaxExns
    /\ TotalFrames < MaxFrames
    /\ LET out == Created(exn_new(error, location))
       IN  /\ exns' = exns \cup {out}
           /\ last' = [op |-> "new", error |-> error, location |-> location,
                       out |-> out]
    /\ UNCHANGED rev

\* From<E> for Exn<E> is not #[track_caller]
ExnFrom(error) ==
    /\ rev = "exn.rs"
    /\ Cardinality(exns) < MaxExns
    /\ TotalFrames < MaxFrames
    /\ LET out == Created(exn_new(error, HereInFrom))
       IN  /\ exns' = exns \cup {out}
           /\ last' = [op |-> "from", error |-> error, out |-> out]
    /\ UNCHANGED rev

Context(self, value) ==
    /\ rev = "exn.rs"
    /\ self \in exns
    /\ AttachedHeld(exns) < MaxContexts
    /\ LET context == ContextValue("&str", value)
           out == [Kept(self, exn_context(self.exn, context))
                      EXCEPT !.attached = Append(@, context)]
       IN  /\ exns' = (exns \ {self}) \cup {out}
           /\ last' = [op |-> "context", self |-> self, context |-> context,
                       out |-> out]
    /\ UNCHANGED rev

\* suppress(other) with other an Exn<E>: IntoExn::into_exn is the identity
Suppress(self, other) ==
    /\ rev = "exn.rs"
    /\ self \in exns
    /\ other \in exns \ {self}
    /\ other.exn.variance = self.exn.variance
    /\ LET out == [Kept(self, suppress(self.exn, other.exn))
                      EXCEPT !.others = Append(@, other.exn.exn_impl)]
       IN  /\ exns' = (exns \ {self, other}) \cup {out}
           /\ last' = [op |-> "suppress", self |-> self, other |-> other.exn,
                       out |-> out]
    /\ UNCHANGED rev

\* suppress(other) with other an error E: IntoExn::into_exn is Exn::new
SuppressError(self, error) ==
    /\ rev = "exn.rs"
    /\ self \in exns
    /\ error.ty = self.exn.variance
    /\ TotalFrames < MaxFrames
    /\ LET other == exn_new(error, HereInSuppress)
           out == [Kept(self, suppress(self.exn, other))
                      EXCEPT !.others = Append(@, other.exn_impl)]
       IN  /\ exns' = (exns \ {self}) \cup {out}
           /\ last' = [op |-> "suppress", self |-> self, other |-> other,
                       out |-> out]
    /\ UNCHANGED rev

ExnRaise(self, err) ==
    /\ rev = "exn.rs"
    /\ self \in exns
    /\ TotalFrames < MaxFrames
    /\ LET out == Raised(self, exn_raise(self.exn, err))
       IN  /\ exns' = (exns \ {self}) \cup {out}
           /\ last' = [op |-> "raise", self |-> self, err |-> err, out |-> out]
    /\ UNCHANGED rev

NextExn ==
    \/ \E c \in PlainCalls : ExnNew(c.error, c.location)
    \/ \E error \in PlainErrors : ExnFrom(error)
    \/ \E self \in exns, value \in ContextValues : Context(self, value)
    \/ \E self \in exns, other \in exns : Suppress(self, other)
    \/ \E self \in exns, error \in PlainErrors : SuppressError(self, error)
    \/ \E self \in exns, err \in PlainErrors : ExnRaise(self, err)

\* --------------------------------------------------------- specifications
Init == rev \in Revisions /\ InitExns
Next == NextImpls \/ NextMod \/ NextExn
Spec == Init /\ [][Next]_vars

InitImpls == rev = "impls.rs" /\ InitExns
SpecImpls == InitImpls /\ [][NextImpls]_vars

\* the programs of the examples: trees built with new, raise and raise_all,
\* searched with find_error
NextFind ==
    \/ \E c \in Calls : New(c.error, c.location)
    \/ \E self \in exns, c \in Calls : Raise(self, c.error, c.location)
    \/ \E order \in Orders, c \in Calls : RaiseAll(c.error, order, c.location)
    \/ \E self \in exns, T \in Types : FindError(self, T)
SpecFind == InitImpls /\ [][NextFind]_vars

\* The renderers are functions of one tree: the trees of up to
\* MaxRenderFrames frames that new, raise and raise_all build of errors of
\* one type without native causes, the i-th frame in pre-order showing the
\* text "E<i>" and made at line i.
RenderError(i) ==
    [ty |-> "A", msg |-> "E" \o ToString(i), provide |-> None, source |-> None]
RenderLocation(i) == << "main.rs", i, 5 >>

RECURSIVE TreesFrom(_, _)
RECURSIVE ForestsFrom(_, _)
\* the sequences of trees of m frames in all, numbered from i in pre-order
ForestsFrom(i, m) ==
    IF m = 0 THEN {<< >>}
    ELSE UNION {{<< t >> \o rest : t \in TreesFrom(i, k),
                                    rest \in ForestsFrom(i + k, m - k)} :
                  k \in 1..m}
\* the trees of n frames, numbered from i in pre-order
TreesFrom(i, n) ==
    {Frame(RenderError(i), RenderLocation(i), children) :
        children \in ForestsFrom(i + 1, n - 1)}

RenderTrees == UNION {TreesFrom(1, n) : n \in 1..MaxRenderFrames}

InitRender ==
    /\ rev = "impls.rs"
    /\ exns \in {{Merged(Exn(tree, Unit, "A"))} : tree \in RenderTrees}
    /\ last = [op |-> "init"]
NextRender ==
    \/ \E self \in exns : DebugFmt(self)
    \/ \E self \in exns : CompactFmt(self)
SpecRender == InitRender /\ [][NextRender]_vars

InitMod == rev = "impls/mod.rs" /\ InitExns
SpecMod == InitMod /\ [][NextMod]_vars

InitExn == rev = "exn.rs" /\ InitExns
SpecExn == InitExn /\ [][NextExn]_vars

\* ================================================== iterator.rs
\* Result<T, E>
Ok(value) == [ok |-> TRUE, value |-> value]
Err(value) == [ok |-> FALSE, value |-> value]

\* std: FromIterator for Result<A, E> with every Err skipped
try_collect_skipping_err(items, pos, acc) ==
    LET rest == SelectSeq(SubSeq(items, pos, Len(items)),
                          LAMBDA item : item.ok)
    IN  [result |-> Ok(acc \o [j \in 1..Len(rest) |-> rest[j].value]),
         pos |-> Len(items) + 1]

\* self.by_ref().collect::<Result<A, E>>(): takes items until the first Err
\* or the end; pos is the next item the iterator will give
RECURSIVE try_collect(_, _, _)
try_collect(items, pos, acc) ==
    IF pos > Len(items) THEN [result |-> Ok(acc), pos |-> pos]
    ELSE IF items[pos].ok
         THEN try_collect(items, pos + 1, Append(acc, items[pos].value))
         ELSE [result |-> Err(items[pos].value), pos |-> pos + 1]

\* the rest of the iterator left where the first Err was found
filter_map_err_none(items, pos) == << >>

\* self.filter_map(Result::err): the errors of the items not yet taken
filter_map_err(items, pos) ==
    LET rest == SelectSeq(SubSeq(items, pos, Len(items)),
                          LAMBDA item : ~item.ok)
    IN  [j \in 1..Len(rest) |-> rest[j].value]

\* IteratorExt::collect_all; consumed counts the items taken from self
collect_all(items) ==
    LET first == try_collect(items, 1, << >>)
    IN  IF first.result.ok
        THEN [result |-> first.result, consumed |-> first.pos - 1]
        ELSE [result |-> Err(<< first.result.value >>
                             \o filter_map_err(items, first.pos)),
              consumed |-> Len(items)]

\* an iterator of Results: the k-th item is a success or a failure that
\* carries its position
ItemsOfLen(n) ==
    {[k \in 1..n |-> IF k \in failed THEN Err(<< "E", k >>)
                     ELSE Ok(<< "T", k >>)] : failed \in SUBSET (1..n)}
Iterators == UNION {ItemsOfLen(n) : n \in 0..MaxItems}

\* iter.collect_all(): takes the iterator by value
CollectAll(self) ==
    /\ rev = "iterator.rs"
    /\ self \in exns
    /\ exns' = exns \ {self}
    /\ last' = [op |-> "collect_all", self |-> self, out |-> collect_all(self)]
    /\ UNCHANGED rev

InitCollect ==
    /\ rev = "iterator.rs"
    /\ exns \in {{items} : items \in Iterators}
    /\ last = [op |-> "init"]
NextCollect == \E self \in exns : CollectAll(self)
SpecCollect == InitCollect /\ [][NextCollect]_vars

\* ============================== exn-anyhow/src/lib.rs and impls.rs, interop
\* Error::source for Frame with the last child as the cause
frame_source_last(frame) ==
    IF frame.children = << >> THEN None
    ELSE Some(Ref(<< Len(frame.children) >>,
                  frame.children[Len(frame.children)]))

\* Error::source for Frame: self.children.first(); the reference is the
\* child's index and the child
frame_source(frame) ==
    IF frame.children = << >> THEN None
    ELSE Some(Ref(<< 1 >>, frame.children[1]))

\* From<Exn<E>> for Box<dyn Error>: Box::new(exn.frame)
into_box(exn) == exn.frame

\* the cause chain of a boxed Frame as a consumer walks it with source():
\* the place of every error visited and the error
RECURSIVE frame_chain(_, _)
frame_chain(frame, at) ==
    << Ref(at, frame) >>
    \o (IF frame_source(frame) = None THEN << >>
        ELSE LET cause == frame_source(frame)[1]
             IN  frame_chain(cause.error, at \o cause.at))

\* anyhow::Error::from_boxed(err.into())
to_anyhow(err) == into_box(err)

\* pub struct AnyhowError(pub String); it has no source
AnyhowError(message) ==
    [ty |-> "AnyhowError", msg |-> message, provide |-> None, source |-> None]

\* err.chain().map(ToString::to_string).collect::<Vec<_>>(): the error, then
\* its causes
RECURSIVE chain_to_strings(_)
chain_to_strings(err) ==
    << to_string(err) >>
    \o (IF err.source = None THEN << >> ELSE chain_to_strings(err.source[1]))

\* Vec::pop taking the first element
pop_front(chain) == [item |-> Head(chain), rest |-> Tail(chain)]

\* Vec::pop: the last element and what stays
pop(chain) ==
    [item |-> chain[Len(chain)], rest |-> SubSeq(chain, 1, Len(chain) - 1)]

NewInFromAnyhow == << "exn-anyhow/src/lib.rs", 48, 19 >>
RaiseInFromAnyhow == << "exn-anyhow/src/lib.rs", 51, 19 >>

\* while let Some(message) = chain.pop() { exn = exn.raise(..) }
RECURSIVE from_anyhow_loop(_, _)
from_anyhow_loop(chain, exn) ==
    IF chain = << >> THEN exn
    ELSE from_anyhow_loop(pop(chain).rest,
                          raise(exn, AnyhowError(pop(chain).item),
                                RaiseInFromAnyhow))

from_anyhow(err) ==
    LET chain == chain_to_strings(err)
        leaf == pop(chain)
    IN  from_anyhow_loop(leaf.rest,
                         new(AnyhowError(leaf.item), NewInFromAnyhow))

\* the foreign errors: an error with a cause chain of up to MaxSources links
AnyhowErrors == ErrorValues

\* let boxed: Box<dyn Error> = exn.into(); takes the handle by value
IntoBoxError(self) ==
    /\ rev = "impls.rs"
    /\ self \in exns
    /\ exns' = exns \ {self}
    /\ last' = [op |-> "into_box", self |-> self, out |-> into_box(self.exn),
                chain |-> frame_chain(into_box(self.exn), << >>)]
    /\ UNCHANGED rev

\* to_anyhow(exn); takes the handle by value
ToAnyhow(self) ==
    /\ rev = "impls.rs"
    /\ self \in exns
    /\ exns' = exns \ {self}
    /\ last' = [op |-> "to_anyhow", self |-> self, out |-> to_anyhow(self.exn),
                chain |-> frame_chain(to_anyhow(self.exn), << >>)]
    /\ UNCHANGED rev

\* from_anyhow(err)
FromAnyhow(err) ==
    /\ rev = "impls.rs"
    /\ Cardinality(exns) < MaxExns
    /\ LET out == Merged(from_anyhow(err))
       IN  /\ exns' = exns \cup {out}
           /\ last' = [op |-> "from_anyhow", error |-> err, out |-> out]
    /\ UNCHANGED rev

NextInterop ==
    \/ \E self \in exns : IntoBoxError(self)
    \/ \E self \in exns : ToAnyhow(self)
    \/ \E err \in AnyhowErrors : FromAnyhow(err)
SpecInterop == InitRender /\ [][NextInterop]_vars

\* ================================= exn.rs and visitor.rs, the visitor
\* A view (ExnView) is the path of links from the root node to its node.
FirstChild == "first_child"
NextSibling == "next_sibling"

RECURSIVE NodeAt(_, _)
NodeAt(node, view) ==
    IF view = << >> THEN node
    ELSE IF Head(view) = FirstChild THEN NodeAt(node.first_child[1], Tail(view))
    ELSE NodeAt(node.next_sibling[1], Tail(view))

\* one call of Visitor::visit_exn with the view
ExnHook(view) == [hook |-> "visit_exn", view |-> view]

\* one call of Visitor::visit_context with the view of the i-th entry
ContextHook(view, i, context) ==
    [hook |-> "visit_context", view |-> view, index |-> i, context |-> context]

\* Exn::visit: the hook calls it makes
exn_visit(exn_impl) == << ExnHook(<< >>) >>

\* a traversal driven by the tree: the first child and then its sibling
visit_first_child_and_sibling(node, view) ==
    IF node.first_child = None THEN << >>
    ELSE << ExnHook(Append(view, FirstChild)) >>
         \o (IF node.first_child[1].next_sibling = None THEN << >>
             ELSE << ExnHook(view \o << FirstChild, NextSibling >>) >>)

\* ExnView::visit_first_child: the hook calls it makes
visit_first_child(node, view) ==
    IF node.first_child # None
    THEN << ExnHook(Append(view, FirstChild)) >>
    ELSE << >>

\* ExnView::visit_next_sibling: the hook calls it makes
visit_next_sibling(node, view) ==
    IF node.next_sibling # None
    THEN << ExnHook(Append(view, NextSibling)) >>
    ELSE << >>

\* ExnView::visit_contexts: the hook calls it makes
visit_contexts(node, view) ==
    [i \in 1..Len(node.context) |-> ContextHook(view, i, node.context[i])]

\* the views handed to the visit_exn calls among the hook calls
ViewsOf(hooks) ==
    LET exn_hooks == SelectSeq(hooks, LAMBDA h : h.hook = "visit_exn")
    IN  [j \in 1..Len(exn_hooks) |-> exn_hooks[j].view]

VisitOps ==
    {"visit", "visit_first_child", "visit_next_sibling", "visit_contexts",
     "return"}

\* exn.visit(&mut visitor): the visitor is now inside visit_exn(root view);
\* stack holds the views of the visit_exn calls that have not returned, log
\* the hook calls made since visit was called
ExnVisit(self) ==
    /\ rev = "exn.rs"
    /\ self \in exns
    /\ last.op \in VisitOps => last.stack = << >>
    /\ LET hooks == exn_visit(self.exn.exn_impl)
       IN  last' = [op |-> "visit", self |-> self, view |-> << >>,
                    stack |-> ViewsOf(hooks), log |-> hooks]
    /\ UNCHANGED <<rev, exns>>

\* the visitor, inside visit_exn(view), calls a method of the view
ViewCall(op, hooks) ==
    /\ Len(last.log) + Len(hooks) <= MaxHooks
    /\ last' = [last EXCEPT !.op = op,
                            !.view = last.stack[Len(last.stack)],
                            !.stack = @ \o ViewsOf(hooks),
                            !.log = @ \o hooks]
    /\ UNCHANGED <<rev, exns>>

VisitFirstChild ==
    /\ rev = "exn.rs"
    /\ last.op \in VisitOps
    /\ last.stack # << >>
    /\ LET view == last.stack[Len(last.stack)]
       IN  ViewCall("visit_first_child",
                    visit_first_child(NodeAt(last.self.exn.exn_impl, view), view))

VisitNextSibling ==
    /\ rev = "exn.rs"
    /\ last.op \in VisitOps
    /\ last.stack # << >>
    /\ LET view == last.stack[Len(last.stack)]
       IN  ViewCall("visit_next_sibling",
                    visit_next_sibling(NodeAt(last.self.exn.exn_impl, view), view))

VisitContexts ==
    /\ rev = "exn.rs"
    /\ last.op \in VisitOps
    /\ last.stack # << >>
    /\ LET view == last.stack[Len(last.stack)]
       IN  ViewCall("visit_contexts",
                    visit_contexts(NodeAt(last.self.exn.exn_impl, view), view))

\* the visitor returns from the innermost visit_exn
VisitReturn ==
    /\ rev = "exn.rs"
    /\ last.op \in VisitOps
    /\ last.stack # << >>
    /\ last' = [last EXCEPT !.op = "return",
                            !.view = last.stack[Len(last.stack)],
                            !.stack = SubSeq(@, 1, Len(@) - 1)]
    /\ UNCHANGED <<rev, exns>>

\* the sibling-linked trees of n nodes that new, context, suppress and raise
\* build, the errors numbered from i in the order node, children, siblings
RECURSIVE LinkedFrom(_, _)
LinkedFrom(i, n) ==
    IF n = 0 THEN {None}
    ELSE UNION {
        {Some(LinkedImpl(RenderError(i),
                         << ContextValue("Location", RenderLocation(i)) >>,
                         first_child, next_sibling)) :
            first_child \in LinkedFrom(i + 1, k),
            next_sibling \in LinkedFrom(i + 1 + k, n - 1 - k)} :
        k \in 0..(n - 1)}

VisitTrees == UNION {{node[1] : node \in LinkedFrom(1, n)} : n \in 1..MaxFrames}

\* the handles to visit: a tree, with or without a context attached to its
\* root after its creation
VisitExns ==
    {ModExn(tree, "A") : tree \in VisitTrees}
    \cup {exn_context(ModExn(tree, "A"), ContextValue("&str", "c1")) :
            tree \in VisitTrees}

InitVisit ==
    /\ rev = "exn.rs"
    /\ exns \in {{Merged(exn)} : exn \in VisitExns}
    /\ last = [op |-> "init"]
NextVisit ==
    \/ \E self \in exns : ExnVisit(self)
    \/ VisitFirstChild
    \/ VisitNextSibling
    \/ VisitContexts
    \/ VisitReturn
SpecVisit == InitVisit /\ [][NextVisit]_vars

\* ============================================ result.rs and option.rs
\* the success values of the Results and Options handed to the extensions
Successes == {"v1", "v2"}

\* err(): one call of the FnOnce closure, which gives the closure's error
call(err) == err

\* or_raise for Result<T, E>, E an error; location is Location::caller() of
\* the #[track_caller] or_raise, which Exn::new and raise both see; calls
\* counts the calls of the closure
or_raise(self, err, location) ==
    IF self.ok THEN [result |-> Ok(self.value), calls |-> 0]
    ELSE [result |-> Err(raise(new(self.value, location), call(err), location)),
          calls |-> 1]

\* or_raise that raises without the tree it was handed
or_raise_exn_from_scratch(self, err, location) ==
    IF self.ok THEN [result |-> Ok(self.value), calls |-> 0]
    ELSE [result |-> Err(new(call(err), location)), calls |-> 1]

\* or_raise for Result<T, Exn<E, R>>
or_raise_exn(self, err, location) ==
    IF self.ok THEN [result |-> Ok(self.value), calls |-> 0]
    ELSE [result |-> Err(raise(discard_recovery(self.value), call(err), location)),
          calls |-> 1]

\* IntoExn for E inside ok_or_raise: Exn::new(self) of the revision linked
into_exn(error, location) ==
    IF rev = "exn.rs" THEN exn_new(error, location) ELSE mod_new(error)

\* OptionExt::ok_or_raise
ok_or_raise(self, err, location) ==
    IF self # None THEN [result |-> Ok(self[1]), calls |-> 0]
    ELSE [result |-> Err(into_exn(call(err), location)), calls |-> 1]

\* the handle a call has returned becomes live
Returned(out, entry) ==
    IF out.result.ok THEN exns' = exns
    ELSE /\ Cardinality(exns) < MaxExns
         /\ exns' = exns \cup {entry}

\* result.or_raise(|| err) on a Result<T, E>
OrRaise(self, err, location) ==
    /\ rev = "impls.rs"
    /\ ~self.ok => TotalFrames + 2 + SourceChainLen(self.value)
                       + SourceChainLen(err) <= MaxFrames
    /\ LET out == or_raise(self, err, location)
       IN  /\ Returned(out, Merged(out.result.value))
           /\ last' = [op |-> "or_raise", self |-> self, err |-> err,
                       location |-> location, out |-> out]
    /\ UNCHANGED rev

\* result.or_raise(|| err) on a Result<T, Exn<E, R>> holding a live handle
OrRaiseExn(self, err, location) ==
    /\ rev = "impls.rs"
    /\ ~self.ok => self.value \in {e.exn : e \in exns} /\ Fits(err)
    /\ LET out == or_raise_exn(self, err, location)
       IN  /\ IF out.result.ok THEN exns' = exns
              ELSE exns' = {e \in exns : e.exn # self.value}
                              \cup {Merged(out.result.value)}
           /\ last' = [op |-> "or_raise_exn", self |-> self, err |-> err,
                       location |-> location, out |-> out]
    /\ UNCHANGED rev

\* option.ok_or_raise(|| err)
OkOrRaise(self, err, location) ==
    /\ rev \in {"impls/mod.rs", "exn.rs"}
    /\ self = None => Fits(err)
    /\ LET out == ok_or_raise(self, err, location)
       IN  /\ Returned(out, Merged(out.result.value))
           /\ last' = [op |-> "ok_or_raise", self |-> self, err |-> err,
                       location |-> location, out |-> out]
    /\ UNCHANGED rev

Options == {Some(v) : v \in Successes} \cup {None}

\* programs that build handles and pass Results and Options through the
\* extension traits
NextExt ==
    \/ \E c \in Calls : New(c.error, c.location)
    \/ \E c \in Calls, recovery \in Recoveries :
          WithRecovery(c.error, recovery, c.location)
    \/ \E v \in Successes, c \in Calls : OrRaise(Ok(v), c.error, c.location)
    \/ \E e \in ErrorValues, c \in Calls : OrRaise(Err(e), c.error, c.location)
    \/ \E v \in Successes, c \in Calls : OrRaiseExn(Ok(v), c.error, c.location)
    \/ \E e \in exns, c \in Calls : OrRaiseExn(Err(e.exn), c.error, c.location)
    \/ \E self \in Options, c \in Calls : OkOrRaise(self, c.error, c.location)
SpecExt == Init /\ [][NextExt]_vars

\* ------------------------------------------------- helpers of the claims
Max(S) == CHOOSE x \in S : \A y \in S : y <= x

\* number of edges on the longest path from a frame down to a leaf
RECURSIVE Depth(_)
Depth(frame) ==
    IF frame.children = << >> THEN 0
    ELSE 1 + Max({Depth(frame.children[i]) : i \in 1..Len(frame.children)})

\* the frame reached from `frame` by stepping j times to the first child
RECURSIVE FirstDescend(_, _)
FirstDescend(frame, j) ==
    IF j = 0 THEN Some(frame)
    ELSE IF frame.children = << >> THEN None
    ELSE FirstDescend(frame.children[1], j - 1)

\* the frame reached from `frame` by stepping j times to the last child
RECURSIVE LastDescend(_, _)
LastDescend(frame, j) ==
    IF j = 0 THEN Some(frame)
    ELSE IF frame.children = << >> THEN None
    ELSE LastDescend(frame.children[Len(frame.children)], j - 1)

RaiseOps == {"raise", "raise_with_recovery"}
RaiseAllOps == {"raise_all", "raise_all_with_recovery", "from_iter"}
VecRevisions == {"impls.rs", "impls/mod.rs"}

\* ------------------------------------------------------------------- C1
\* C1: the payload of the root frame of every live handle Exn<E> has the
\* concrete type E, after any sequence of the building operations of any
\* revision, and no read of the root payload (Deref, current_value) panics.
C1_RootPayloadHasTypeE ==
    /\ \A e \in exns : Root(e.exn).error.ty = TypeParam(e.exn)
    /\ last.op # "panic"

\* a raise has changed the static type of a handle
C1_Witness ==
    /\ last.op \in RaiseOps
    /\ last.out \in exns
    /\ TypeParam(last.out.exn) # TypeParam(last.self.exn)
    /\ Root(last.out.exn).error.ty = TypeParam(last.out.exn)

\* ------------------------------------------------------------------- C2
\* C2 as stated: after h.raise(t) the first child of the new root is h's root
\* frame as it was before the raise, and stepping j times to the first child
\* from the root of a handle gives the root it had before its j-th most
\* recent raise.
C2_Original ==
    /\ (rev \in VecRevisions /\ last.op \in RaiseOps) =>
          FirstDescend(Root(last.out.exn), 1) = Some(Root(last.self.exn))
    /\ \A e \in exns : \A j \in 1..Len(e.trail) :
          rev \in VecRevisions =>
             FirstDescend(Root(e.exn), j) = Some(e.trail[Len(e.trail) - j + 1])

\* C2 amended: after h.raise(t) the last child of the new root is h's root
\* frame as it was before the raise (same payload, location and subtree); it
\* is the first child exactly when t has no native cause chain; and stepping
\* j times to the last child from the root of a handle gives the root it had
\* before its j-th most recent raise.
C2_RaisedRootIsLastChild ==
    /\ (rev \in VecRevisions /\ last.op \in RaiseOps) =>
          /\ LastDescend(Root(last.out.exn), 1) = Some(Root(last.self.exn))
          /\ (FirstDescend(Root(last.out.exn), 1) = Some(Root(last.self.exn)))
                <=> (last.err.source = None)
    /\ \A e \in exns : \A j \in 1..Len(e.trail) :
          rev \in VecRevisions =>
             LastDescend(Root(e.exn), j) = Some(e.trail[Len(e.trail) - j + 1])

\* two raises in a row, the second with an error that has a native cause
C2_Witness ==
    /\ rev \in VecRevisions
    /\ last.op = "raise"
    /\ last.err.source # None
    /\ Len(last.out.trail) >= 2
    /\ last.out \in exns

\* ------------------------------------------------------------------- C3
\* C3 as stated: a handle made by new and then raised k times has a tree of
\* depth k, whatever the error values.
C3_Original ==
    \A e \in exns :
        (rev \in VecRevisions /\ e.fresh) => Depth(Root(e.exn)) = Len(e.trail)

\* the error values of a fresh handle, the created one first
Errors(e) ==
    [j \in 1..Len(e.trail) + 1 |->
        IF j <= Len(e.trail) THEN e.trail[j].error ELSE Root(e.exn).error]

\* C3 amended: a handle made by new and then raised k times has a tree of
\* depth k when none of the k+1 error values has a native cause chain; in
\* general the depth is at least k: it is the largest, over the error
\* values, of the level of the error's frame plus the length of its cause
\* chain.
C3_DepthCountsRaisesAndCauses ==
    \A e \in exns :
        (rev \in VecRevisions /\ e.fresh) =>
            LET k == Len(e.trail)
                errs == Errors(e)
            IN  /\ Depth(Root(e.exn)) >= k
                /\ Depth(Root(e.exn)) =
                      Max({(k + 1 - j) + SourceChainLen(errs[j]) : j \in 1..k + 1})
                /\ (\A j \in 1..k + 1 : errs[j].source = None) =>
                      Depth(Root(e.exn)) = k

\* two raises on a fresh handle whose first error has a cause: depth 3
C3_Witness ==
    \E e \in exns :
        /\ rev \in VecRevisions
        /\ e.fresh
        /\ Len(e.trail) = 2
        /\ Depth(Root(e.exn)) = 3

\* ------------------------------------------------------------------- C4
\* C4 as stated: the children of the root made by raise_all / from_iter are
\* exactly the root frames of the given sub-trees, in iteration order; none
\* when the iterable is empty.
C4_Original ==
    (rev \in VecRevisions /\ last.op \in RaiseAllOps) =>
        Root(last.out.exn).children =
            [k \in 1..Len(last.children) |-> Root(last.children[k])]

\* C4 amended: the children of the root made by raise_all / from_iter are
\* the frame materialized from the native cause of the new error, when it
\* has one, followed by exactly the root frames of the given sub-trees, in
\* iteration order, each with its subtree intact; with an empty iterable the
\* root has zero children when the error has no native cause.
C4_ChildrenAfterCause ==
    (rev \in VecRevisions /\ last.op \in RaiseAllOps) =>
        LET kids == Root(last.out.exn).children
            n == Len(last.children)
            c == IF last.error.source = None THEN 0 ELSE 1
        IN  /\ Len(kids) = c + n
            /\ \A k \in 1..n : kids[c + k] = Root(last.children[k])
            /\ c = 1 =>
                 /\ kids[1].error.ty = "SourceError"
                 /\ to_string(kids[1].error) = to_string(last.error.source[1])

\* two sub-trees, one of them with children of its own
C4_Witness ==
    /\ rev \in VecRevisions
    /\ last.op \in RaiseAllOps
    /\ Len(last.children) = 2
    /\ \E k \in 1..2 : Root(last.children[k]).children # << >>
    /\ last.out \in exns

\* ------------------------------------------------------------------- C5
\* a node of exn.rs without its link to the next sibling
Detached(node) == [node EXCEPT !.next_sibling = None]

\* the siblings behind a node of exn.rs, nearest first
RECURSIVE SiblingList(_)
SiblingList(node) ==
    IF node.next_sibling = None THEN << >>
    ELSE << Detached(node.next_sibling[1]) >> \o SiblingList(node.next_sibling[1])

\* each suppressed root followed by the siblings it brought along
RECURSIVE WithOwnSiblings(_)
WithOwnSiblings(others) ==
    IF others = << >> THEN << >>
    ELSE << Detached(Head(others)) >> \o SiblingList(Head(others))
         \o WithOwnSiblings(Tail(others))

\* C5 as stated: after suppress calls with o1..ok on a handle the sibling
\* list of its root is exactly [o1.root, ..., ok.root], in call order.
C5_Original ==
    \A e \in exns :
        rev = "exn.rs" =>
            SiblingList(Root(e.exn)) =
                [k \in 1..Len(e.others) |-> Detached(e.others[k])]

\* C5 amended: suppress links other's root, together with the siblings other
\* itself carries, behind the last sibling of the handle's root: after
\* suppress calls with o1..ok the sibling list is, in call order, each
\* oi.root followed by oi's own siblings (exactly [o1.root, ..., ok.root] when
\* no oi carries siblings); every sibling present before a call keeps its
\* position, none is overwritten, and the root's payload, contexts and
\* children stay as they were.
C5_SuppressAppendsAtTail ==
    /\ \A e \in exns :
          rev = "exn.rs" =>
             /\ SiblingList(Root(e.exn)) = WithOwnSiblings(e.others)
             /\ (\A k \in 1..Len(e.others) : e.others[k].next_sibling = None) =>
                   SiblingList(Root(e.exn)) = e.others
    /\ last.op = "suppress" =>
          /\ SiblingList(Root(last.out.exn)) =
                SiblingList(Root(last.self.exn))
                \o << Detached(Root(last.other)) >>
                \o SiblingList(Root(last.other))
          /\ Detached(Root(last.out.exn)) = Detached(Root(last.self.exn))

\* the third sibling is linked behind two that were there before
C5_Witness ==
    /\ last.op = "suppress"
    /\ Len(SiblingList(Root(last.self.exn))) = 2
    /\ Len(last.out.others) >= 2
    /\ last.out \in exns

\* ------------------------------------------------------------------- C6
AttachOps == {"attach", "context"}

\* C6: attach (context in exn.rs) appends exactly one entry at the end of the
\* root's context sequence and leaves the payload, the type, the children
\* and the contexts of the descendants as they were: the contexts of a root
\* are its creation location followed by the attached values, oldest first;
\* a raise leaves the contexts on the frame they were attached to, and the
\* new root starts with its creation location only.
C6_AttachAppendsOneContext ==
    /\ \A e \in exns :
          rev # "impls.rs" =>
             /\ Len(Root(e.exn).context) = 1 + Len(e.attached)
             /\ Root(e.exn).context[1].ty = "Location"
             /\ Tail(Root(e.exn).context) = e.attached
    /\ last.op \in AttachOps =>
          /\ Root(last.out.exn) =
                [Root(last.self.exn) EXCEPT !.context = Append(@, last.context)]
          /\ TypeParam(last.out.exn) = TypeParam(last.self.exn)
    /\ (rev # "impls.rs" /\ last.op = "raise") =>
          /\ Len(Root(last.out.exn).context) = 1
          /\ IF rev = "exn.rs"
             THEN Root(last.out.exn).first_child = Some(Root(last.self.exn))
             ELSE LastDescend(Root(last.out.exn), 1) = Some(Root(last.self.exn))

\* a raise on a handle whose root holds two attached values
C6_Witness ==
    /\ rev # "impls.rs"
    /\ last.op = "raise"
    /\ Len(last.self.attached) = 2
    /\ last.self.attached[1] # last.self.attached[2]
    /\ last.out \in exns

\* ------------------------------------------------------------- C7 and C8
\* the places of the frames of a tree
RECURSIVE Places(_)
Places(frame) ==
    {<< >>} \cup UNION {{<<i>> \o p : p \in Places(frame.children[i])} :
                          i \in 1..Len(frame.children)}

RECURSIVE FrameAt(_, _)
FrameAt(frame, at) ==
    IF at = << >> THEN frame ELSE FrameAt(frame.children[Head(at)], Tail(at))

\* p comes before q in depth-first pre-order: p is an ancestor of q, or at
\* the first index where they differ p takes the earlier child
Before(p, q) ==
    /\ p # q
    /\ \/ Len(p) < Len(q) /\ SubSeq(q, 1, Len(p)) = p
       \/ \E i \in 1..Len(p) :
             /\ i <= Len(q)
             /\ p[i] < q[i]
             /\ SubSeq(p, 1, i - 1) = SubSeq(q, 1, i - 1)

\* the places of the frames whose payload has exactly type T
Hits(frame, T) == {p \in Places(frame) : FrameAt(frame, p).error.ty = T}

\* C7: find_error::<T> returns the payload of the first frame in depth-first
\* pre-order whose payload has exactly type T; with several such frames the
\* earliest in pre-order, and the root when the root is a T.
C7_FindReturnsFirstInPreOrder ==
    last.op = "find_error" =>
        LET root == Root(last.self.exn)
            hits == Hits(root, last.T)
        IN  hits # {} =>
               /\ last.out # None
               /\ last.out[1].at \in hits
               /\ \A q \in hits \ {last.out[1].at} : Before(last.out[1].at, q)
               /\ last.out[1].error = FrameAt(root, last.out[1].at).error
               /\ << >> \in hits => last.out[1].at = << >>

\* several frames of type T, none of them the root
C7_Witness ==
    /\ last.op = "find_error"
    /\ Cardinality(Hits(Root(last.self.exn), last.T)) >= 2
    /\ << >> \notin Hits(Root(last.self.exn), last.T)
    /\ last.out # None

\* C8: on a tree with exactly one frame of type T find_error::<T> returns
\* that frame, at whatever depth and behind however many siblings; on a tree
\* with no frame of type T it returns None; it never panics.
C8_FindUniqueOrAbsent ==
    /\ last.op = "find_error" =>
          LET root == Root(last.self.exn)
              hits == Hits(root, last.T)
          IN  /\ Cardinality(hits) = 1 =>
                    \E p \in hits :
                       last.out = Some(Ref(p, FrameAt(root, p).error))
              /\ hits = {} <=> last.out = None
    /\ last.op # "panic"

\* the one frame of type T sits at depth 2 below a second child
C8_Witness ==
    /\ last.op = "find_error"
    /\ Cardinality(Hits(Root(last.self.exn), last.T)) = 1
    /\ last.out # None
    /\ Len(last.out[1].at) = 2
    /\ last.out[1].at[1] = 2

\* ------------------------------------------------------------------- C9
\* C9: recover returns exactly the recovery value the handle carries,
\* together with the handle discard_recovery returns for the same handle;
\* with_recovery builds the tree new builds, recover and discard_recovery
\* leave the frame tree as it is (so every rendering of it stays the same),
\* and a frame holds an error, a location and children, never a recovery
\* value.
C9_RecoverReturnsValueAndSameTree ==
    /\ last.op = "recover" =>
          /\ last.value = last.self.exn.recovery
          /\ last.out.exn = discard_recovery(last.self.exn)
          /\ last.out.exn.frame = last.self.exn.frame
    /\ last.op = "discard_recovery" =>
          /\ last.out.exn.frame = last.self.exn.frame
          /\ last.out.exn.recovery = Unit
    /\ last.op = "with_recovery" =>
          /\ last.out.exn.recovery = last.recovery
          /\ last.out.exn.frame = new(last.error, last.location).frame
    /\ \A e \in exns :
          rev = "impls.rs" =>
             \A p \in Places(e.exn.frame) :
                DOMAIN FrameAt(e.exn.frame, p) = {"error", "location", "children"}

\* recover on the handle with_recovery made of an error with a cause
C9_Witness ==
    /\ last.op = "recover"
    /\ last.value \in Recoveries
    /\ \E c \in Calls :
          last.self.exn = with_recovery(c.error, last.value, c.location)
    /\ last.self.exn.frame.children # << >>
    /\ last.out \in exns

\* ------------------------------------------------------------------ C10
\* the i-th native cause of an error, the outermost first
RECURSIVE NthCause(_, _)
NthCause(error, i) ==
    IF i = 0 THEN error ELSE NthCause(error.source[1], i - 1)

NewOps == {"new", "with_recovery"}

\* C10: for an error whose native cause chain has k links new yields a root
\* followed by exactly k descendants in one linear chain, the i-th of which
\* shows the display text of the i-th cause, outermost first; for k = 0 the
\* root has no children (impls.rs and impls/mod.rs; exn.rs does not read the
\* cause chain).
C10_NewMaterializesCauseChain ==
    (rev \in VecRevisions /\ last.op \in NewOps) =>
        LET root == Root(last.out.exn)
            k == SourceChainLen(last.error)
        IN  /\ FrameCount(root) = k + 1
            /\ root.error = last.error
            /\ \A i \in 0..k :
                  LET f == FirstDescend(root, i)
                  IN  /\ f # None
                      /\ Len(f[1].children) = IF i < k THEN 1 ELSE 0
                      /\ i >= 1 =>
                            to_string(f[1].error) =
                               to_string(NthCause(last.error, i))

\* new on an error with a cause that has a cause
C10_Witness ==
    /\ rev \in VecRevisions
    /\ last.op = "new"
    /\ SourceChainLen(last.error) = 2
    /\ FrameCount(Root(last.out.exn)) = 3

\* ------------------------------------------------------------------ C11
\* the places of the frames made by new, raise and raise_all themselves: the
\* root, and every child of such a frame except the one materialized from
\* the native cause of its payload (the first child when there is a cause)
RECURSIVE ExplicitPlaces(_)
ExplicitPlaces(frame) ==
    {<< >>} \cup
    UNION {{<<i>> \o p : p \in ExplicitPlaces(frame.children[i])} :
             i \in {j \in 1..Len(frame.children) :
                      j > 1 \/ frame.error.source = None}}

\* C11: the frames materialized from a native cause chain hold the opaque
\* SourceError wrapper, so find_error::<T> never returns one of them, even
\* when the cause had type T, while every frame made by new, raise or
\* raise_all is found by its type: the search answers with an explicitly
\* made frame, and with None exactly when no such frame has type T.
C11_CauseFramesAreDisplayOnly ==
    last.op = "find_error" =>
        LET root == Root(last.self.exn)
            explicit == ExplicitPlaces(root)
        IN  /\ \A p \in Places(root) \ explicit :
                  /\ FrameAt(root, p).error.ty = "SourceError"
                  /\ FrameAt(root, p).error.ty \notin Types
            /\ \A p \in explicit : FrameAt(root, p).error.ty \in Types
            /\ last.out # None => last.out[1].at \in explicit
            /\ last.out = None <=>
                  \A p \in explicit : FrameAt(root, p).error.ty # last.T
            /\ \A p \in explicit :
                  find_walk(FrameAt(root, p), FrameAt(root, p).error.ty, p)
                     = Some(Ref(p, FrameAt(root, p).error))

\* the search for the type of the root's native cause finds nothing
C11_Witness ==
    /\ last.op = "find_error"
    /\ Root(last.self.exn).error.source # None
    /\ Root(last.self.exn).error.source[1].ty = last.T
    /\ Len(Root(last.self.exn).children) = 2
    /\ last.out = None

\* ------------------------------------------------------------------ C12
CreateOps == {"new", "from", "with_recovery"}
KeepOps == {"attach", "context", "discard_recovery", "recover"}

\* the frames of the trees of a sequence of handles
HandleFrames(handles) ==
    SeqSum([k \in 1..Len(handles) |-> FrameCount(Root(handles[k]))])

\* suppress was handed an error, converted in place by IntoExn::into_exn
OtherIsError(other) ==
    Root(other).context[1] = ContextValue("Location", HereInSuppress)

\* C12: the frames form a forest owned by the live handles. A tree is a
\* nested value, so a frame has one parent and is never its own ancestor;
\* every operation moves the trees it consumes into its result: the handles
\* consumed by raise, raise_all and suppress are live no longer, no other
\* handle appears or disappears, and the result holds exactly the frames of
\* the consumed trees plus the frames the operation creates, each once.
C12_Step ==
    LET l == last'
        gone == exns \ exns'
    IN  /\ exns' \ exns \subseteq (IF "out" \in DOMAIN l THEN {l.out} ELSE {})
        /\ CASE l.op \in CreateOps ->
                   /\ gone = {}
                   /\ l.out \in exns'
                   /\ FrameCount(Root(l.out.exn)) = 1 + SourceChainLen(l.error)
             [] l.op \in RaiseOps ->
                   /\ gone = {l.self}
                   /\ l.out \in exns'
                   /\ FrameCount(Root(l.out.exn)) =
                         FrameCount(Root(l.self.exn)) + 1 + SourceChainLen(l.err)
             [] l.op \in RaiseAllOps ->
                   /\ Cardinality(gone) = Len(l.children)
                   /\ {e.exn : e \in gone} = Range(l.children)
                   /\ l.out \in exns'
                   /\ FrameCount(Root(l.out.exn)) =
                         1 + SourceChainLen(l.error) + HandleFrames(l.children)
             [] l.op = "suppress" ->
                   /\ l.self \in gone
                   /\ IF OtherIsError(l.other)
                      THEN gone = {l.self}
                      ELSE \E o \in gone : o.exn = l.other /\ gone = {l.self, o}
                   /\ l.out \in exns'
                   /\ FrameCount(Root(l.out.exn)) =
                         FrameCount(Root(l.self.exn)) + FrameCount(Root(l.other))
             [] l.op \in KeepOps ->
                   /\ gone \subseteq {l.self}
                   /\ l.out \in exns'
                   /\ FrameCount(Root(l.out.exn)) = FrameCount(Root(l.self.exn))
             [] OTHER -> exns' = exns

C12_FramesFormAForest == [][C12_Step]_vars

\* raise_all has consumed the two live handles: only its result is live
C12_Witness ==
    /\ last.op \in RaiseAllOps
    /\ Len(last.children) = 2
    /\ exns = {last.out}
    /\ FrameCount(Root(last.out.exn)) >= 3

\* ------------------------------------------------- reading a render
\* the lines of a text: the runs of characters between line feeds
LineBreaks(text) == {i \in 1..Len(text) : text[i] = Nl}

\* the position of the k-th line break of a text
LineBreak(text, k) ==
    CHOOSE i \in LineBreaks(text) :
        Cardinality({j \in LineBreaks(text) : j <= i}) = k

Lines(text) ==
    LET count == Cardinality(LineBreaks(text)) + 1
    IN  [k \in 1..count |->
            SubSeq(text,
                   IF k = 1 THEN 1 ELSE LineBreak(text, k - 1) + 1,
                   IF k = count THEN Len(text) ELSE LineBreak(text, k) - 1)]

StartsWith(line, start) ==
    Len(line) >= Len(start) /\ SubSeq(line, 1, Len(start)) = start

\* the places of the frames of a tree in depth-first pre-order: a frame
\* before its children, the children in stored order
RECURSIVE PreOrderPlaces(_, _)
RECURSIVE PreOrderForest(_, _, _)
PreOrderForest(children, i, at) ==
    IF i > Len(children) THEN << >>
    ELSE PreOrderPlaces(children[i], Append(at, i))
         \o PreOrderForest(children, i + 1, at)
PreOrderPlaces(frame, at) ==
    << at >> \o PreOrderForest(frame.children, 1, at)

\* the line `{display}, at {file}:{line}:{column}` of a frame
ExpectedLine(frame) ==
    << frame.error.msg, ",", " ", "a", "t", " ", frame.location[1], ":",
       ToString(frame.location[2]), ":", ToString(frame.location[3]) >>

Arrow == << "|", "-", ">", " " >>

\* every frame of the tree has at most one child
IsChain(frame) ==
    \A p \in Places(frame) : Len(FrameAt(frame, p).children) <= 1

PreOrderFrames(frame) ==
    LET places == PreOrderPlaces(frame, << >>)
    IN  [j \in 1..Len(places) |-> FrameAt(frame, places[j])]

\* the linear chain of the given frames: each frame keeps its text and its
\* location and has the next frame as its only child
RECURSIVE ChainOf(_)
ChainOf(frames) ==
    [Head(frames) EXCEPT !.children =
        IF Len(frames) = 1 THEN << >> ELSE << ChainOf(Tail(frames)) >>]

\* C14: as the specification states it, a tree in which some frame has more
\* than one child renders in the indented form differently from the linear
\* chain of the same frames in the same pre-order.
C14_SiblingsDifferFromChain ==
    (last.op = "debug" /\ ~IsChain(Root(last.self.exn))) =>
        last.out # write_exn(ChainOf(PreOrderFrames(Root(last.self.exn))),
                             0, << >>)

\* ------------------------------------------------------------------ C15
\* the position of a place in the pre-order of a tree
IndexOf(places, p) == CHOOSE j \in 1..Len(places) : places[j] = p

\* the line of the indented render that holds the frame at a place
DebugLine(root, out, p) ==
    Lines(out)[2 * IndexOf(PreOrderPlaces(root, << >>), p) - 1]

\* what stands in a non-root frame's line before its `|-> `
Indent(root, out, p) ==
    LET line == DebugLine(root, out, p)
    IN  SubSeq(line, 1,
               Len(line) - Len(ExpectedLine(FrameAt(root, p))) - Len(Arrow))

\* the places of the frames that have exactly one child, which has exactly
\* one child
OnlyChildWithOnlyChild(root) ==
    {p \in Places(root) :
        /\ Len(FrameAt(root, p).children) = 1
        /\ Len(FrameAt(root, Append(p, 1)).children) = 1}

\* every proper ancestor of the frame at p has exactly one child
OnlyChildrenAbove(root, p) ==
    \A k \in 0..(Len(p) - 1) :
        Len(FrameAt(root, SubSeq(p, 1, k)).children) = 1

\* C15 as the specification states it: at any depth, the subtree of the only
\* child of a frame, when that child has one child itself, is rendered with
\* no extra indentation: the grandchild's line is indented as the child's.
C15_Original ==
    last.op = "debug" =>
        LET root == Root(last.self.exn)
        IN  \A p \in OnlyChildWithOnlyChild(root) :
                Indent(root, last.out, p \o << 1, 1 >>)
                    = Indent(root, last.out, Append(p, 1))

\* C15 (amended): the flat run is taken only from the root downwards. When
\* a frame has exactly one child and that child has exactly one child, the
\* child's subtree is rendered with no extra indentation if every proper
\* ancestor of the frame has exactly one child, and four spaces deeper than
\* the child's own line otherwise.
C15_FlatRunOnlyFromRoot ==
    last.op = "debug" =>
        LET root == Root(last.self.exn)
        IN  \A p \in OnlyChildWithOnlyChild(root) :
                LET child == Indent(root, last.out, Append(p, 1))
                    grandchild == Indent(root, last.out, p \o << 1, 1 >>)
                IN  /\ DebugLine(root, last.out, p \o << 1, 1 >>)
                          = grandchild \o Arrow
                              \o ExpectedLine(FrameAt(root, p \o << 1, 1 >>))
                    /\ IF OnlyChildrenAbove(root, p)
                       THEN grandchild = child
                       ELSE grandchild = child \o Blank4

\* a render in which a frame below a frame with several children has an
\* only child with an only child
C15_Witness ==
    /\ last.op = "debug"
    /\ \E p \in OnlyChildWithOnlyChild(Root(last.self.exn)) :
          ~OnlyChildrenAbove(Root(last.self.exn), p)

\* ------------------------------------------------------------------ C16
\* the line holding only a prefix and `|` that introduces a non-root frame
DebugBarLine(root, out, p) ==
    Lines(out)[2 * IndexOf(PreOrderPlaces(root, << >>), p) - 2]

\* the places strictly below the place p
Below(root, p) ==
    {d \in Places(root) : Len(d) > Len(p) /\ SubSeq(d, 1, Len(p)) = p}

\* C16: in the indented render, for a frame with N > 1 children rendered
\* under prefix p (its children's lines are p, `|-> ` and the frame line),
\* every line of the subtree below the i-th child with i < N starts with p
\* followed by `|   `, and every line of the subtree below the last child
\* starts with p followed by four spaces.
C16_SiblingSubtreePrefixes ==
    last.op = "debug" =>
        LET root == Root(last.self.exn)
        IN  \A q \in Places(root) :
                LET N == Len(FrameAt(root, q).children)
                    p == Indent(root, last.out, Append(q, 1))
                IN  N > 1 =>
                      \A i \in 1..N :
                          LET under == IF i < N THEN p \o Rail
                                       ELSE p \o Blank4
                          IN  /\ DebugLine(root, last.out, Append(q, i))
                                    = p \o Arrow
                                        \o ExpectedLine(FrameAt(root, Append(q, i)))
                              /\ \A d \in Below(root, Append(q, i)) :
                                    /\ StartsWith(DebugLine(root, last.out, d), under)
                                    /\ StartsWith(DebugBarLine(root, last.out, d), under)

\* a render of a frame below the root with two children that both have
\* children of their own
C16_Witness ==
    /\ last.op = "debug"
    /\ \E q \in Places(Root(last.self.exn)) :
          /\ q # << >>
          /\ Len(FrameAt(Root(last.self.exn), q).children) = 2
          /\ Below(Root(last.self.exn), Append(q, 1)) # {}
          /\ Below(Root(last.self.exn), Append(q, 2)) # {}

\* ------------------------------------------------------------------ C17
\* the place of the parent of a non-root place
Parent(p) == SubSeq(p, 1, Len(p) - 1)

CompactLine(root, out, p) ==
    Lines(out)[IndexOf(PreOrderPlaces(root, << >>), p)]

Branch == << BoxVerticalRight, BoxHorizontal, " " >>

Corner == << BoxUpRight, BoxHorizontal, " " >>

\* the three characters in front of the frame text of a non-root frame
CompactConnector(root, out, p) ==
    LET line == CompactLine(root, out, p)
        text == Len(ExpectedLine(FrameAt(root, p)))
    IN  SubSeq(line, Len(line) - text - 2, Len(line) - text)

\* the frame at p has a following sibling
HasFollowingSibling(root, p) ==
    p[Len(p)] < Len(FrameAt(root, Parent(p)).children)

\* the frame at p lies on the flat run from the root: every frame above it
\* has exactly one child and it has exactly one child itself
OnRootRun(root, p) ==
    OnlyChildrenAbove(root, p) /\ Len(FrameAt(root, p).children) = 1

\* C18 as the specification states it: every non-root frame's line carries
\* the branch connector exactly when the frame has a following sibling and
\* the corner connector exactly when it is the last or only child.
C18_Original ==
    last.op = "compact" =>
        LET root == Root(last.self.exn)
        IN  \A d \in Places(root) \ {<< >>} :
                CompactConnector(root, last.out, d)
                    = IF HasFollowingSibling(root, d) THEN Branch ELSE Corner

\* C18 (amended): the root line has no connector; a non-root frame's line
\* carries the branch connector exactly when the frame has a following
\* sibling or lies on the flat run from the root (an only child with exactly
\* one child, below frames that each have exactly one child), and the
\* corner connector exactly when it is a last or only child off that run.
C18_ConnectorByPositionOffTheRun ==
    last.op = "compact" =>
        LET root == Root(last.self.exn)
        IN  /\ CompactLine(root, last.out, << >>) = ExpectedLine(root)
            /\ \A d \in Places(root) \ {<< >>} :
                  CompactConnector(root, last.out, d)
                      = IF HasFollowingSibling(root, d) \/ OnRootRun(root, d)
                        THEN Branch ELSE Corner

\* a compact render with an only child on the flat run, and a frame with
\* several children
C18_Witness ==
    /\ last.op = "compact"
    /\ \E d \in Places(Root(last.self.exn)) \ {<< >>} :
          OnRootRun(Root(last.self.exn), d)
    /\ \E d \in Places(Root(last.self.exn)) \ {<< >>} :
          HasFollowingSibling(Root(last.self.exn), d)

\* ------------------------------------------------------------------ C19
\* what stands in a non-root frame's line before its connector
CompactPrefix(root, out, p) ==
    LET line == CompactLine(root, out, p)
    IN  SubSeq(line, 1,
               Len(line) - Len(ExpectedLine(FrameAt(root, p))) - Len(Branch))

\* the non-root frames strictly above the frame at p
StrictlyAbove(p) == {SubSeq(p, 1, k) : k \in 1..(Len(p) - 1)}

\* C19 as the specification states it: the lines below a child with
\* following siblings start with the child's prefix plus the rail, those
\* below a last child with the prefix plus three spaces, and a frame at
\* depth d >= 1 has 3*(d-1) characters before its connector.
C19_Original ==
    last.op = "compact" =>
        LET root == Root(last.self.exn)
        IN  \A c \in Places(root) \ {<< >>} :
                LET inherited == CompactPrefix(root, last.out, c)
                    under == IF HasFollowingSibling(root, c)
                             THEN inherited \o CompactRail
                             ELSE inherited \o Blank3
                IN  /\ Len(inherited) = 3 * (Len(c) - 1)
                    /\ \A d \in Below(root, c) :
                          StartsWith(CompactLine(root, last.out, d), under)

\* C19 (amended): a child on the flat run from the root hands its own
\* (empty) prefix on unchanged; below any other child with following
\* siblings the lines start with the child's prefix plus the rail, below
\* any other last child with the prefix plus three spaces; so a frame has
\* three characters before its connector for each non-root frame above it
\* that is not on the flat run.
C19_PrefixGrowsOffTheRun ==
    last.op = "compact" =>
        LET root == Root(last.self.exn)
        IN  \A c \in Places(root) \ {<< >>} :
                LET inherited == CompactPrefix(root, last.out, c)
                    under == IF OnRootRun(root, c) THEN inherited
                             ELSE IF HasFollowingSibling(root, c)
                             THEN inherited \o CompactRail
                             ELSE inherited \o Blank3
                IN  /\ CompactLine(root, last.out, c)
                          = inherited \o CompactConnector(root, last.out, c)
                              \o ExpectedLine(FrameAt(root, c))
                    /\ Len(inherited) =
                          3 * Cardinality({a \in StrictlyAbove(c) :
                                              ~OnRootRun(root, a)})
                    /\ \A d \in Below(root, c) :
                          /\ StartsWith(CompactLine(root, last.out, d), under)
                          /\ Parent(d) = c =>
                                CompactPrefix(root, last.out, d) = under

\* a compact render with a child on the flat run, and off the run a child
\* with a following sibling and a last child that both have descendants
C19_Witness ==
    /\ last.op = "compact"
    /\ \E c \in Places(Root(last.self.exn)) \ {<< >>} :
          OnRootRun(Root(last.self.exn), c)
    /\ \E c \in Places(Root(last.self.exn)) \ {<< >>} :
          /\ HasFollowingSibling(Root(last.self.exn), c)
          /\ Below(Root(last.self.exn), c) # {}
    /\ \E c \in Places(Root(last.self.exn)) \ {<< >>} :
          /\ ~HasFollowingSibling(Root(last.self.exn), c)
          /\ ~OnRootRun(Root(last.self.exn), c)
          /\ Below(Root(last.self.exn), c) # {}

\* ------------------------------------------------------------------ C20
EndsWith(line, end) ==
    Len(line) >= Len(end)
    /\ SubSeq(line, Len(line) - Len(end) + 1, Len(line)) = end

\* the lines of a render that hold the text of the given frame
LinesOf(lines, frame) ==
    {k \in 1..Len(lines) : EndsWith(lines[k], ExpectedLine(frame))}

\* C20: for every tree, the frames appear in the indented render and in
\* the compact render in depth-first pre-order (a frame before its
\* children, children in stored order), each frame exactly once; both
\* renderers list the frames of the same tree in the same order.
C20_RenderersListPreOrder ==
    last.op \in {"debug", "compact"} =>
        LET root == Root(last.self.exn)
            frames == PreOrderFrames(root)
            n == Len(frames)
            indented == Lines(debug_fmt(last.self.exn))
            compact == Lines(compact_debug(last.self.exn))
        IN  /\ last.out = IF last.op = "debug" THEN debug_fmt(last.self.exn)
                          ELSE compact_debug(last.self.exn)
            /\ n = FrameCount(root)
            /\ Len(compact) = n
            /\ \A k \in 1..n :
                  /\ LinesOf(indented, frames[k]) = {2 * k - 1}
                  /\ LinesOf(compact, frames[k]) = {k}

\* the compact render of a tree of six frames with a frame of several
\* children below the root
C20_Witness ==
    /\ last.op = "compact"
    /\ FrameCount(Root(last.self.exn)) = 6
    /\ \E q \in Places(Root(last.self.exn)) \ {<< >>} :
          Len(FrameAt(Root(last.self.exn), q).children) >= 2
    /\ Len(Lines(last.out)) = 6

\* ------------------------------------------------------------------ C29
\* C29: for a linear chain of n >= 2 frames, the compact render puts every
\* non-root frame on a line with an empty continuation prefix, with the
\* branch connector for every frame except the leaf and the corner
\* connector for the leaf: the chain is rendered as a flat run.
C29_CompactChainIsFlat ==
    (/\ last.op = "compact"
     /\ IsChain(Root(last.self.exn))
     /\ FrameCount(Root(last.self.exn)) >= 2) =>
        LET root == Root(last.self.exn)
            frames == PreOrderFrames(root)
            n == Len(frames)
            lines == Lines(last.out)
        IN  /\ Len(lines) = n
            /\ lines[1] = ExpectedLine(root)
            /\ \A k \in 2..n :
                  lines[k] = (IF k < n THEN Branch ELSE Corner)
                                \o ExpectedLine(frames[k])

\* the compact render of a chain of five frames
C29_Witness ==
    /\ last.op = "compact"
    /\ IsChain(Root(last.self.exn))
    /\ FrameCount(Root(last.self.exn)) = 5
    /\ Len(Lines(last.out)) = 5

\* ------------------------------------------------------------------ C21
RenderOps == {"debug", "compact"}

\* a render step leaves every live tree as it was, renders a live tree, and
\* gives the output the same renderer gave for the same tree the step before
C21_Step ==
    last'.op \in RenderOps =>
        /\ exns' = exns
        /\ last'.self \in exns'
        /\ (last.op = last'.op /\ last.self = last'.self) =>
              last'.out = last.out
        /\ \A other \in RenderOps :
              (last.op = other /\ last.self = last'.self) =>
                  /\ Root(last'.self.exn) = Root(last.self.exn)
                  /\ PreOrderFrames(Root(last'.self.exn))
                        = PreOrderFrames(Root(last.self.exn))

FailedAt(items) ==
    SelectSeq([k \in 1..Len(items) |-> k], LAMBDA k : ~items[k].ok)

\* the positions of the successes of an iterator, in iteration order
SucceededAt(items) ==
    SelectSeq([k \in 1..Len(items) |-> k], LAMBDA k : items[k].ok)

\* C22: collect_all does not short-circuit: when at least one item is a
\* failure, every item of the iterator is consumed and the result is Err
\* holding exactly the payloads of all the failed items in iteration order,
\* those after the first one included, and no success value.
C22_CollectAllReturnsEveryFailure ==
    (last.op = "collect_all" /\ FailedAt(last.self) # << >>) =>
        LET failed == FailedAt(last.self)
        IN  /\ ~last.out.result.ok
            /\ last.out.consumed = Len(last.self)
            /\ Len(last.out.result.value) = Len(failed)
            /\ \A j \in 1..Len(failed) :
                  last.out.result.value[j] = << "E", failed[j] >>
            /\ \A j \in 1..Len(last.out.result.value) :
                  last.out.result.value[j][1] # "T"

\* an iterator with a success between two failures and one after them
C22_Witness ==
    /\ last.op = "collect_all"
    /\ Len(FailedAt(last.self)) >= 2
    /\ \E k \in 1..Len(last.self) :
          /\ last.self[k].ok
          /\ FailedAt(last.self)[1] < k
          /\ k < FailedAt(last.self)[2]
    /\ last.self[Len(last.self)].ok
    /\ Len(last.out.result.value) >= 2

\* ------------------------------------------------------------------ C23
\* C23: collect_all returns Ok if and only if no item of the iterator is a
\* failure, and then the Ok collection holds every success value exactly
\* once in iteration order; an empty iterator gives an empty Ok collection.
C23_CollectAllOkIffNoFailure ==
    last.op = "collect_all" =>
        /\ last.out.result.ok <=> FailedAt(last.self) = << >>
        /\ last.out.result.ok =>
              /\ Len(last.out.result.value) = Len(last.self)
              /\ \A k \in 1..Len(last.self) :
                    last.out.result.value[k] = << "T", k >>
              /\ last.out.consumed = Len(last.self)
        /\ last.self = << >> => last.out.result = Ok(<< >>)

\* an iterator of several successes and no failure has been collected
C23_Witness ==
    /\ last.op = "collect_all"
    /\ Len(last.self) >= 3
    /\ FailedAt(last.self) = << >>
    /\ last.out.result.ok
    /\ Len(last.out.result.value) = Len(last.self)

\* ------------------------------------------------------------------ C24
\* the messages of a foreign error, the outermost first
RECURSIVE Messages(_)
Messages(err) ==
    << err.msg >> \o (IF err.source = None THEN << >> ELSE Messages(err.source[1]))

\* the place at depth k on the first-child spine
Spine(k) == [j \in 1..k |-> 1]

\* C24: for a foreign error whose cause chain has n >= 1 messages m1
\* (outermost) .. mn (innermost), from_anyhow returns a tree of exactly n
\* frames forming a linear chain: the root's text is m1, the frame at depth
\* i has text m(i+1), every frame except the leaf has exactly one child and
\* the leaf has none.
C24_FromAnyhowBuildsChain ==
    last.op = "from_anyhow" =>
        LET m == Messages(last.error)
            n == Len(m)
            root == Root(last.out.exn)
        IN  /\ n >= 1
            /\ FrameCount(root) = n
            /\ Places(root) = {Spine(k) : k \in 0..(n - 1)}
            /\ \A k \in 0..(n - 1) :
                  /\ to_string(FrameAt(root, Spine(k)).error) = m[k + 1]
                  /\ Len(FrameAt(root, Spine(k)).children)
                        = IF k < n - 1 THEN 1 ELSE 0

\* a foreign error with three messages has been converted
C24_Witness ==
    /\ last.op = "from_anyhow"
    /\ Len(Messages(last.error)) = 3
    /\ FrameCount(Root(last.out.exn)) = 3

\* ------------------------------------------------------------------ C25
IntoErrorOps == {"into_box", "to_anyhow"}

\* C25: after an Exn is converted into a boxed standard error, or into the
\* foreign error type by to_anyhow, the native cause chain of the result
\* visits exactly the root frame, then its first child, then that child's
\* first child, and so on, ending at the first frame with no children;
\* frames under a non-first child are never reached.
C25_CauseChainIsFirstChildSpine ==
    last.op \in IntoErrorOps =>
        LET root == Root(last.self.exn)
            n == Len(last.chain)
        IN  /\ n >= 1
            /\ \A k \in 1..n :
                  /\ last.chain[k].at = Spine(k - 1)
                  /\ last.chain[k].error = FrameAt(root, Spine(k - 1))
            /\ FrameAt(root, Spine(n - 1)).children = << >>
            /\ \A k \in 1..(n - 1) :
                  FrameAt(root, Spine(k - 1)).children # << >>

\* a tree whose cause chain has three errors and leaves out two frames
\* that sit under a later child
C25_Witness ==
    /\ last.op = "to_anyhow"
    /\ Len(last.chain) = 3
    /\ FrameCount(Root(last.self.exn)) = 5
    /\ Len(Root(last.self.exn).children) = 2
    /\ Len(Root(last.self.exn).children[2].children) = 1

\* ------------------------------------------------------------------ C26
\* the node a view looks at, or None when the link does not exist
Linked(root, view, link) ==
    IF link = FirstChild THEN NodeAt(root, view).first_child
    ELSE NodeAt(root, view).next_sibling

\* the hook calls added to the log by a step
Added == SubSeq(last'.log, Len(last.log) + 1, Len(last'.log))

\* what one call of the visitor's may add to the log of hook calls
C26_Step ==
    last'.op \in VisitOps =>
        LET root == last'.self.exn.exn_impl
            view == last'.view
        IN  /\ exns' = exns
            /\ last'.op = "visit" =>
                  last'.log = << [hook |-> "visit_exn", view |-> << >>] >>
            /\ last'.op # "visit" =>
                  /\ last'.self = last.self
                  /\ Len(last'.log) >= Len(last.log)
                  /\ SubSeq(last'.log, 1, Len(last.log)) = last.log
            /\ \A link \in {FirstChild, NextSibling} :
                  last'.op = "visit_" \o link =>
                      Added = IF Linked(root, view, link) # None
                              THEN << [hook |-> "visit_exn",
                                       view |-> Append(view, link)] >>
                              ELSE << >>
            /\ last'.op = "visit_contexts" =>
                  /\ Len(Added) = Len(NodeAt(root, view).context)
                  /\ \A k \in 1..Len(Added) :
                        Added[k] = [hook |-> "visit_context", view |-> view,
                                    index |-> k,
                                    context |-> NodeAt(root, view).context[k]]
            /\ last'.op = "return" => Added = << >>

\* C26: traversal is driven by the visitor, not by the tree: Exn::visit
\* invokes the node hook exactly once, on the root view; any other frame is
\* visited only when the visitor calls visit_first_child or
\* visit_next_sibling on a view, each of which invokes the node hook exactly
\* once when that child or sibling exists and not at all when it is absent;
\* visit_contexts invokes the context hook once per context entry in
\* insertion order.
C26_VisitorDrivesTraversal == [][C26_Step]_vars

\* the visitor has gone from the root to its first child and on to that
\* child's sibling, after having visited the two contexts of the root
C26_Witness ==
    /\ last.op = "visit_next_sibling"
    /\ Len(last.log) = 4
    /\ last.log[2].hook = "visit_context"
    /\ last.log[3].hook = "visit_context"
    /\ last.log[3].context = ContextValue("&str", "c1")
    /\ last.log[4].view = << FirstChild >>
    /\ last.stack = << << >>, << FirstChild >> >>

\* ------------------------------------------------------------------ C27
ExtOps == {"or_raise", "or_raise_exn", "ok_or_raise"}

\* the call was made on a success: Ok(v) or Some(v)
OnSuccess ==
    IF last.op = "ok_or_raise" THEN last.self # None ELSE last.self.ok

SuccessValue ==
    IF last.op = "ok_or_raise" THEN last.self[1] ELSE last.self.value

\* the root frame of the tree the failing Result held: the tree Exn::new
\* builds of a plain error, the tree of the handle otherwise
OriginalTree ==
    IF last.op = "or_raise" THEN new(last.self.value, last.location).frame
    ELSE last.self.value.frame

\* what the extensions do on a success, and the closure's one call and the
\* root of the tree on a failure
C27_Common ==
    IF OnSuccess
    THEN /\ last.out.result = Ok(SuccessValue)
         /\ last.out.calls = 0
    ELSE /\ ~last.out.result.ok
         /\ last.out.calls = 1
         /\ Root(last.out.result.value).error = last.err
         /\ last.op = "or_raise_exn" =>
               /\ last.out.result.value.recovery = Unit
               /\ last.out.result.value.phantom = last.err.ty

Children(node) ==
    IF node.first_child = None THEN << >>
    ELSE << Detached(node.first_child[1]) >> \o SiblingList(node.first_child[1])

\* the number of siblings the suppressed roots before the i-th brought in
RECURSIVE BroughtBefore(_, _)
BroughtBefore(others, i) ==
    IF i <= 1 THEN 0
    ELSE BroughtBefore(others, i - 1) + 1 + Len(SiblingList(others[i - 1]))

\* C28: in the sibling-linked representation, when y1..yk have been
\* suppressed onto handle x and x is raised with a new error, the new root
\* has x's root as its first child, followed by y1..yk as further children
\* in suppress order (each with the siblings it carried itself), and the
\* new root has no siblings; a suppress after the raise adds a sibling of
\* the new root and leaves its children unchanged.
C28_RaiseTakesSuppressedAlong ==
    rev = "exn.rs" =>
        /\ last.op = "raise" =>
              LET x == last.self
                  root == Root(last.out.exn)
                  kids == Children(root)
              IN  /\ root.next_sibling = None
                  /\ root.error = last.err
                  /\ kids = << Detached(Root(x.exn)) >>
                               \o WithOwnSiblings(x.others)
                  /\ \A i \in 1..Len(x.others) :
                        kids[2 + BroughtBefore(x.others, i)] = Detached(x.others[i])
                  /\ (\A i \in 1..Len(x.others) :
                         x.others[i].next_sibling = None) =>
                        kids = << Detached(Root(x.exn)) >> \o x.others
        /\ last.op = "suppress" =>
              LET before == Root(last.self.exn)
                  after == Root(last.out.exn)
              IN  /\ Children(after) = Children(before)
                  /\ after.first_child = before.first_child
                  /\ SiblingList(after) =
                        SiblingList(before)
                        \o << Detached(Root(last.other)) >>
                        \o SiblingList(Root(last.other))

\* an error has been suppressed onto a handle, the handle has been raised,
\* and a suppress has then been issued on the new root
C28_Witness ==
    /\ rev = "exn.rs"
    /\ last.op = "suppress"
    /\ last.self.trail # << >>
    /\ Len(Children(Root(last.self.exn))) = 2
    /\ Len(Children(Root(last.out.exn))) = 2
    /\ Len(SiblingList(Root(last.out.exn))) = 1

\* ------------------------------------------------------------------ C30
\* the handles a raise or a raise_all has consumed, in the order given
Consumed ==
    IF last.op \in RaiseOps THEN << last.self.exn >> ELSE last.children

\* the error the new root was made of
NewError == IF last.op \in RaiseOps THEN last.err ELSE last.error

\* C30: raise and raise_all (from_iter) neither drop nor duplicate frames:
\* the frames of the resulting tree are exactly the new root frame, the
\* frames materialized from the new error's native cause chain, and every
\* frame of every consumed sub-tree, and each consumed sub-tree keeps its
\* internal shape, child order, payloads and locations unchanged.
C30_RaiseKeepsEveryFrame ==
    (rev \in VecRevisions /\ last.op \in RaiseOps \cup RaiseAllOps) =>
        LET root == Root(last.out.exn)
            n == Len(Consumed)
            c == IF NewError.source = None THEN 0 ELSE 1
        IN  /\ root.error = NewError
            /\ Len(root.children) = c + n
            /\ \A k \in 1..n : root.children[c + k] = Root(Consumed[k])
            /\ c = 1 =>
                  /\ IsChain(root.children[1])
                  /\ FrameCount(root.children[1]) = SourceChainLen(NewError)
            /\ FrameCount(root) =
                  1 + SourceChainLen(NewError)
                    + SeqSum([k \in 1..n |-> FrameCount(Root(Consumed[k]))])

\* raise_all has consumed two sub-trees under an error with a native cause
C30_Witness ==
    /\ rev \in VecRevisions
    /\ last.op \in RaiseAllOps
    /\ Len(last.children) = 2
    /\ last.error.source # None
    /\ FrameCount(Root(last.out.exn)) = 4

====
